---- MODULE Spec2Model ----
(***************************************************************************)
(* The student ETL pipeline as state machines.  The loader                 *)
(* (src/etl/load.py) works on a relational store: per-record upserts of    *)
(* students, courses and enrollments on one psycopg2 connection, the batch *)
(* loop of load_students_batch, and load_courses / load_enrollments.  The  *)
(* transformer (src/etl/transform.py) and the pipeline (src/etl/etl.py)    *)
(* follow further down, each with the values it works on.                  *)
(*                                                                         *)
(* Values.  A field of a record is a string; two absence markers are kept  *)
(* apart because the driver treats them differently: None is Python None,  *)
(* which psycopg2 sends as SQL NULL, and NaN is float('nan'), which        *)
(* psycopg2 sends as 'NaN'::float, a value that is not NULL.  pandas gives *)
(* NaN for an empty cell of a column it read or coerced with to_numeric,   *)
(* and dict.get gives None for a column the table does not have.           *)
(*                                                                         *)
(* Columns.  first_name stands for the text columns the UPDATE coalesces   *)
(* (first_name, last_name, gender, phone), gpa for the numeric ones, and   *)
(* department_id is resolved through the departments table.                *)
(*                                                                         *)
(* Store.  The tables carry the constraints the design states: unique      *)
(* email and unique student_code on students, unique course_code on        *)
(* courses, unique (student_id, course_id) on enrollments.  Key columns    *)
(* (email, student_code, course_code) hold a string or None in every       *)
(* record: what the server does with a NaN key depends on column types     *)
(* that are set in sql/schema.sql, which is not among the sources.  A      *)
(* statement the server refuses leaves the transaction in the failed       *)
(* state: every later statement is refused until the transaction ends,     *)
(* and COMMIT of a failed transaction is a ROLLBACK.                       *)
(***************************************************************************)
EXTENDS Integers, Sequences, FiniteSets, TLC

VARIABLES
    students,      \* committed rows of table students
    view,          \* table students as the open transaction sees it
    aborted,       \* the open transaction is in the failed state
    txnNo,         \* serial number of the open transaction (its CURRENT_TIMESTAMP)
    ended,         \* how each earlier transaction ended: "commit" or "rollback"
    nextId,        \* next value of the student_id sequence
    foreign,       \* number of rows committed by a concurrent writer
    lastCall,      \* the last call made on the cursor and what it returned
    ncalls,        \* number of calls made so far
    pc,            \* control point of the running load
    df,            \* the table being loaded: index labels and records seen so far
    total,         \* len(df)
    batch_size,    \* batch_size argument of load_students_batch
    stats,         \* the stats dictionary of load_students_batch
    log,           \* per processed record: what upsert_student did (history)
    courses,       \* committed rows of table courses
    cview,         \* table courses as the open transaction sees it
    enrollments,   \* committed rows of table enrollments
    eview,         \* table enrollments as the open transaction sees it
    nextCourseId,  \* next value of the course_id sequence
    ret,           \* what the finished load returned to its caller
    raw,           \* the table given to transform_students
    transformer,   \* the DataTransformer after the call: result, errors, log
    pipeline,      \* the ETLPipeline object and the progress of run() / main()
    runs           \* concurrent loads: each one's position, transaction and stats

vars == <<students, view, aborted, txnNo, ended, nextId, foreign, lastCall, ncalls,
          pc, df, total, batch_size, stats, log,
          courses, cview, enrollments, eview, nextCourseId, ret,
          raw, transformer, pipeline, runs>>

studentVars == <<students, view, aborted, txnNo, ended, nextId, foreign>>
batchVars == <<pc, df, total, batch_size, stats, log>>
catalogVars == <<courses, cview, enrollments, eview, nextCourseId, ret>>
transformVars == <<raw, transformer>>
etlVars == <<raw, transformer, pipeline, runs>>

---------------------------------------------------------------------------
(* Bounds *)

MaxCalls == 2        \* calls made on the cursor in SpecUpsert
MaxRows == 3         \* rows of the table given to load_students_batch
MaxBatch == 2        \* largest batch_size
MaxForeign == 1      \* rows a concurrent writer commits during a load
MaxOps == 3          \* rows processed by load_courses / load_enrollments

---------------------------------------------------------------------------
(* Values *)

None == "None"
NaN == "NaN"
NoId == 0

\* pd.isna
isna(x) == x \in {None, NaN}

\* SQL COALESCE(p, old): the first argument unless it is NULL
COALESCE(p, old) == IF p = None THEN old ELSE p

\* SQL a = b: never true when an operand is NULL
SqlEq(a, b) == a # None /\ b # None /\ a = b

EmailPool == <<"a@x.com", "b@x.com", "c@x.com", "d@x.com", "e@x.com">>
CodePool == <<"S1", "S2", "S3", "S4", "S5">>

\* The departments reference table: read by the loader, never written.
Departments == {[department_id |-> "d1", department_code |-> "CS"],
                [department_id |-> "d2", department_code |-> "MATH"]}

---------------------------------------------------------------------------
(* The students table and its constraints *)

StudentRow(id, r, dept, now) ==
    [student_id |-> id, student_code |-> r.student_code, first_name |-> r.first_name,
     email |-> r.email, department_id |-> dept, gpa |-> r.gpa,
     status |-> "Active", updated_at |-> now]

\* unique (email), unique (student_code): would row break them in rows?
UniqueViolation(rows, row) ==
    \E x \in rows : SqlEq(x.email, row.email) \/ SqlEq(x.student_code, row.student_code)

\* The row a concurrent writer commits for email e (register_student of the API,
\* or another pipeline run), with the id it drew from the sequence.
ForeignRow(id, e, now) ==
    [student_id |-> id, student_code |-> None, first_name |-> "Eve",
     email |-> e, department_id |-> None, gpa |-> None,
     status |-> "Active", updated_at |-> now]

\* A cursor: what one open transaction sees and the state of its connection.
\*   rows     table students as the transaction sees it
\*   aborted  a statement failed on the server: every later statement is refused
\*   nextId   the student_id sequence (never rolled back)
\*   now      CURRENT_TIMESTAMP, the start of the transaction
\*   added    rows a concurrent writer committed during the call
Cursor(rows, ab, nid, now) ==
    [rows |-> rows, aborted |-> ab, nextId |-> nid, now |-> now, added |-> {}]

\* What upsert_student returns, with the cursor it leaves behind.
Returned(cur, ok, id, msg) == [cur |-> cur, ok |-> ok, id |-> id, msg |-> msg]

\* A statement the server refuses: the exception is caught by upsert_student and
\* the transaction stays in the failed state until it is ended.
ServerError(cur, msg) == Returned([cur EXCEPT !.aborted = TRUE], FALSE, NoId, msg)

---------------------------------------------------------------------------
(* DatabaseLoader.get_department_id *)

get_department_id(department_code) ==
    IF isna(department_code) THEN None
    ELSE IF \E d \in Departments : d.department_code = department_code
         THEN (CHOOSE d \in Departments : d.department_code = department_code).department_id
         ELSE None

---------------------------------------------------------------------------
(* DatabaseLoader.upsert_student *)

\* SELECT student_id FROM students WHERE email = %s OR student_code = %s
SelectExisting_CodeOnly(rows, r) ==
    {x \in rows : SqlEq(x.student_code, r.student_code)}

SelectExisting(rows, r) ==
    {x \in rows : SqlEq(x.email, r.email) \/ SqlEq(x.student_code, r.student_code)}

FetchOne_Nothing(selected) == {NoId}

\* fetchone(): one of the rows selected (the query has no ORDER BY), or nothing
FetchOne(selected) ==
    IF selected = {} THEN {NoId} ELSE {x.student_id : x \in selected}

\* UPDATE students SET col = COALESCE(%s, col), ... WHERE student_id = existing
UpdateStudent_SkipGpa(cur, existing, r, department_id) ==
    LET old == CHOOSE x \in cur.rows : x.student_id = existing
        new == [old EXCEPT !.first_name = COALESCE(r.first_name, old.first_name),
                           !.department_id = COALESCE(department_id, old.department_id),
                           !.updated_at = cur.now]
    IN  Returned([cur EXCEPT !.rows = (cur.rows \ {old}) \cup {new}],
                 TRUE, existing, "updated")

UpdateStudent(cur, existing, r, department_id) ==
    LET old == CHOOSE x \in cur.rows : x.student_id = existing
        new == [old EXCEPT !.first_name = COALESCE(r.first_name, old.first_name),
                           !.department_id = COALESCE(department_id, old.department_id),
                           !.gpa = COALESCE(r.gpa, old.gpa),
                           !.updated_at = cur.now]
    IN  Returned([cur EXCEPT !.rows = (cur.rows \ {old}) \cup {new}],
                 TRUE, existing, "updated")

\* INSERT INTO students (...) VALUES (..., 'Active') RETURNING student_id
\* The sequence advances whether or not the row is accepted.
InsertStudent(cur, r, department_id) ==
    LET row == StudentRow(cur.nextId, r, department_id, cur.now)
        cur1 == [cur EXCEPT !.nextId = @ + 1]
    IN  IF UniqueViolation(cur.rows, row)
        THEN ServerError(cur1, "UniqueViolation")
        ELSE Returned([cur1 EXCEPT !.rows = @ \cup {row}], TRUE, row.student_id, "inserted")

\* A concurrent writer commits a row with the record's email after the SELECT
\* of this transaction and before its INSERT (READ COMMITTED: the INSERT sees it).
ConcurrentInsert(cur, e) ==
    LET row == ForeignRow(cur.nextId, e, cur.now)
    IN  [cur EXCEPT !.rows = @ \cup {row}, !.added = @ \cup {row}, !.nextId = @ + 1]

\* upsert_student(cursor, student_data) -> (success, student_id, message)
\*   existing  what fetchone() gave: a member of FetchOne(SelectExisting(..))
\*   race      a concurrent writer inserts the same email between SELECT and INSERT
upsert_student(cur, r, existing, race) ==
    IF cur.aborted
    THEN \* InFailedSqlTransaction on the first statement, caught at line 231
         Returned(cur, FALSE, NoId, "InFailedSqlTransaction")
    ELSE IF existing # NoId
    THEN UpdateStudent(cur, existing, r, get_department_id(r.department_code))
    ELSE InsertStudent(IF race THEN ConcurrentInsert(cur, r.email) ELSE cur,
                       r, get_department_id(r.department_code))

---------------------------------------------------------------------------
(* Ending a transaction on the connection *)

\* conn.commit(): COMMIT of a failed transaction is a ROLLBACK
CommitRows(committed, cur) == IF cur.aborted THEN committed ELSE cur.rows

\* how a transaction given to conn.commit() ends
EndOf(ab) == IF ab THEN "rollback" ELSE "commit"

---------------------------------------------------------------------------
(* SpecUpsert: upsert_student called directly on one cursor *)

Emails2 == {EmailPool[1], EmailPool[2]}
Codes2 == {CodePool[1], CodePool[2]}

\* student_data as row.to_dict() of a transformed table gives it
UpsertRecords ==
    [email : Emails2,
     student_code : Codes2 \cup {None},
     first_name : {"Ann", None},
     gpa : {"3.5", NaN},
     department_code : {"CS", "ZZ", NaN}]

SeedA == [student_id |-> 1, student_code |-> CodePool[1], first_name |-> "Bob",
          email |-> EmailPool[1], department_id |-> "d2", gpa |-> "2.0",
          status |-> "Graduated", updated_at |-> 0]
SeedB == [student_id |-> 2, student_code |-> CodePool[2], first_name |-> None,
          email |-> EmailPool[2], department_id |-> None, gpa |-> None,
          status |-> "Active", updated_at |-> 0]
SeedStores == {{}, {SeedA}, {SeedA, SeedB}}

NoRec == [email |-> None, student_code |-> None, first_name |-> None,
          gpa |-> None, department_code |-> None]
NoCall == [op |-> "none", rec |-> NoRec, existing |-> NoId, ok |-> FALSE, id |-> NoId,
           msg |-> "", before |-> {}, healthy |-> TRUE, repeat |-> FALSE, prevId |-> NoId]

IdleBatch ==
    /\ pc = "idle" /\ df = <<>> /\ total = 0 /\ batch_size = 1
    /\ stats = [total |-> 0, inserted |-> 0, updated |-> 0, failed |-> 0, errors |-> <<>>]
    /\ log = <<>>

IdleCatalog ==
    /\ courses = {} /\ cview = {} /\ enrollments = {} /\ eview = {}
    /\ nextCourseId = 1 /\ ret = "unset"

\* A table without columns or rows, and a DataTransformer as __init__ leaves it
NoTable == [columns |-> {}, rows |-> <<>>]
FreshTransformer ==
    [called |-> FALSE, raised |-> FALSE, error |-> "", value |-> NoTable,
     validation_errors |-> <<>>, transformation_log |-> <<>>]

IdleTransform == raw = NoTable /\ transformer = FreshTransformer

NoRuns == <<>>

IdleEtl == IdleTransform /\ pipeline = "unset" /\ runs = NoRuns

InitUpsert ==
    /\ students \in SeedStores
    /\ view = students
    /\ aborted = FALSE
    /\ txnNo = 1
    /\ ended = <<>>
    /\ nextId = 3
    /\ foreign = 0
    /\ lastCall = NoCall
    /\ ncalls = 0
    /\ IdleBatch
    /\ IdleCatalog
    /\ IdleEtl

\* success, student_id, message = self.upsert_student(cursor, student_data)
CallUpsertStudent ==
    /\ ncalls < MaxCalls
    /\ \E r \in UpsertRecords :
         \E existing \in FetchOne(SelectExisting(view, r)) :
            LET res == upsert_student(Cursor(view, aborted, nextId, txnNo), r, existing, FALSE)
                rep == /\ lastCall.op = "upsert_student"
                       /\ lastCall.rec = r
                       /\ lastCall.msg = "inserted"
            IN  /\ view' = res.cur.rows
                /\ aborted' = res.cur.aborted
                /\ nextId' = res.cur.nextId
                /\ lastCall' = [op |-> "upsert_student", rec |-> r, existing |-> existing,
                                ok |-> res.ok, id |-> res.id, msg |-> res.msg,
                                before |-> view, healthy |-> ~aborted, repeat |-> rep,
                                prevId |-> IF rep THEN lastCall.id ELSE NoId]
    /\ ncalls' = ncalls + 1
    /\ UNCHANGED <<students, txnNo, ended, foreign>>
    /\ UNCHANGED batchVars
    /\ UNCHANGED catalogVars
    /\ UNCHANGED etlVars

\* conn.commit()
CallCommit ==
    /\ ncalls < MaxCalls
    /\ students' = CommitRows(students, Cursor(view, aborted, nextId, txnNo))
    /\ view' = students'
    /\ aborted' = FALSE
    /\ txnNo' = txnNo + 1
    /\ ended' = Append(ended, EndOf(aborted))
    /\ lastCall' = [NoCall EXCEPT !.op = "commit", !.before = view]
    /\ ncalls' = ncalls + 1
    /\ UNCHANGED <<nextId, foreign>>
    /\ UNCHANGED batchVars
    /\ UNCHANGED catalogVars
    /\ UNCHANGED etlVars

\* conn.rollback()
CallRollback ==
    /\ ncalls < MaxCalls
    /\ view' = students
    /\ aborted' = FALSE
    /\ txnNo' = txnNo + 1
    /\ ended' = Append(ended, "rollback")
    /\ lastCall' = [NoCall EXCEPT !.op = "rollback", !.before = view]
    /\ ncalls' = ncalls + 1
    /\ UNCHANGED <<students, nextId, foreign>>
    /\ UNCHANGED batchVars
    /\ UNCHANGED catalogVars
    /\ UNCHANGED etlVars

NextUpsert == CallUpsertStudent \/ CallCommit \/ CallRollback

SpecUpsert == InitUpsert /\ [][NextUpsert]_vars

---------------------------------------------------------------------------
(* Properties of upsert_student (SpecUpsert) *)

\* the data columns of a table: every column but updated_at
DataColumns(rows) == {[x EXCEPT !.updated_at = 0] : x \in rows}

RowOf(rows, id) == CHOOSE x \in rows : x.student_id = id

DepartmentCodes == {d.department_code : d \in Departments}

\* record r matches row x by email or by student_code
MatchesRow(x, r) ==
    \/ (r.email # None /\ x.email = r.email)
    \/ (~isna(r.student_code) /\ x.student_code = r.student_code)

\* C1: when no row matched record r, two consecutive upsert_student(r) calls
\* return 'inserted' and then 'updated' with the same student_id, the second
\* call creates no row, and every data column of the table (all but
\* updated_at) is the same after the second call as after the first.
C1_UpsertTwiceIdempotent ==
    /\ (/\ lastCall.op = "upsert_student"
        /\ lastCall.healthy
        /\ \A x \in lastCall.before : ~MatchesRow(x, lastCall.rec)) =>
            /\ lastCall.ok
            /\ lastCall.msg = "inserted"
            /\ Cardinality(view) = Cardinality(lastCall.before) + 1
    /\ lastCall.repeat =>
            /\ lastCall.ok
            /\ lastCall.msg = "updated"
            /\ lastCall.id = lastCall.prevId
            /\ Cardinality(view) = Cardinality(lastCall.before)
            /\ DataColumns(view) = DataColumns(lastCall.before)

C1_Witness ==
    /\ lastCall.repeat
    /\ lastCall.msg = "updated"
    /\ lastCall.rec.gpa = NaN
    /\ lastCall.before # {}

\* C5: an update by upsert_student leaves unchanged every column whose value
\* in the record is absent (None or NaN, as the transformed table holds it):
\* an absent field never overwrites a stored value.
C5_AbsentNeverOverwrites ==
    (lastCall.op = "upsert_student" /\ lastCall.msg = "updated") =>
        LET old == RowOf(lastCall.before, lastCall.id)
            new == RowOf(view, lastCall.id)
            r == lastCall.rec
        IN  /\ isna(r.first_name) => new.first_name = old.first_name
            /\ isna(r.gpa) => new.gpa = old.gpa
            /\ isna(r.department_code) => new.department_id = old.department_id

\* C6 as claimed: on a match the matched row is updated, nothing is inserted,
\* and every non-absent field of r, email and student_code included, equals the
\* stored value; without a match exactly one row holding r's fields is
\* inserted with status 'Active'.
C6_EveryPresentFieldStored ==
    (lastCall.op = "upsert_student" /\ lastCall.healthy) =>
        LET r == lastCall.rec
            matched == {x \in lastCall.before : MatchesRow(x, r)}
        IN  IF matched # {}
            THEN /\ lastCall.msg = "updated"
                 /\ lastCall.id \in {x.student_id : x \in matched}
                 /\ {x.student_id : x \in view} = {x.student_id : x \in lastCall.before}
                 /\ LET new == RowOf(view, lastCall.id)
                    IN  /\ new.email = r.email
                        /\ ~isna(r.student_code) => new.student_code = r.student_code
                        /\ ~isna(r.first_name) => new.first_name = r.first_name
                        /\ ~isna(r.gpa) => new.gpa = r.gpa
                        /\ r.department_code \in DepartmentCodes =>
                              new.department_id = get_department_id(r.department_code)
            ELSE /\ lastCall.msg = "inserted"
                 /\ \E row \in view \ lastCall.before :
                       /\ view = lastCall.before \cup {row}
                       /\ row.student_id = lastCall.id
                       /\ row.status = "Active"
                       /\ row.email = r.email /\ row.student_code = r.student_code
                       /\ row.first_name = r.first_name /\ row.gpa = r.gpa

\* C6 amended: on a match the matched row is updated and nothing is inserted;
\* every non-absent data field of r (first_name, gpa; department_id when the
\* code is in departments) equals the stored value, and the row keeps the
\* email, student_code and status it had; every other row is untouched.
\* Without a match exactly one row is inserted, holding r's fields as sent,
\* the department_id looked up for r's code, and status 'Active'.
C6_PresentDataFieldsStored ==
    (lastCall.op = "upsert_student" /\ lastCall.healthy) =>
        LET r == lastCall.rec
            matched == {x \in lastCall.before : MatchesRow(x, r)}
        IN  IF matched # {}
            THEN /\ lastCall.msg = "updated"
                 /\ lastCall.id \in {x.student_id : x \in matched}
                 /\ {x.student_id : x \in view} = {x.student_id : x \in lastCall.before}
                 /\ \A x \in lastCall.before : x.student_id # lastCall.id => x \in view
                 /\ LET new == RowOf(view, lastCall.id)
                        old == RowOf(lastCall.before, lastCall.id)
                    IN  /\ new.email = old.email
                        /\ new.student_code = old.student_code
                        /\ new.status = old.status
                        /\ ~isna(r.first_name) => new.first_name = r.first_name
                        /\ ~isna(r.gpa) => new.gpa = r.gpa
                        /\ r.department_code \in DepartmentCodes =>
                              new.department_id = get_department_id(r.department_code)
            ELSE /\ lastCall.msg = "inserted"
                 /\ \E row \in view \ lastCall.before :
                       /\ view = lastCall.before \cup {row}
                       /\ row.student_id = lastCall.id
                       /\ row.student_id \notin {x.student_id : x \in lastCall.before}
                       /\ row.status = "Active"
                       /\ row.email = r.email /\ row.student_code = r.student_code
                       /\ row.first_name = r.first_name /\ row.gpa = r.gpa
                       /\ row.department_id = get_department_id(r.department_code)

\* an update through a student_code match by a record with another email and
\* present data fields
C6_Witness ==
    /\ lastCall.op = "upsert_student" /\ lastCall.msg = "updated"
    /\ RowOf(view, lastCall.id).email # lastCall.rec.email
    /\ RowOf(view, lastCall.id).gpa = "3.5"
    /\ RowOf(lastCall.before, lastCall.id).gpa = "2.0"

\* C9: a record whose department_code is present and not in the departments
\* table is rejected: upsert_student returns a failure and no student row is
\* inserted or updated for it.
C9_UnknownDepartmentRejected ==
    (/\ lastCall.op = "upsert_student"
     /\ ~isna(lastCall.rec.department_code)
     /\ lastCall.rec.department_code \notin DepartmentCodes) =>
        (~lastCall.ok /\ view = lastCall.before)

---------------------------------------------------------------------------
(* Spec: load_students_batch over a table the transformer produced *)

Emails == {EmailPool[i] : i \in 1..MaxRows}
CodeOf(e) == CodePool[CHOOSE i \in 1..MaxRows : EmailPool[i] = e]

\* Rows of a transformed table: the e-mails are valid and distinct, the
\* student codes distinct.
BatchRecords ==
    {[email |-> e, student_code |-> CodeOf(e), first_name |-> "Ann", gpa |-> "3.5",
      department_code |-> d] : e \in Emails, d \in {"CS", "ZZ"}}

LastIdx == IF df = <<>> THEN -1 ELSE df[Len(df)].idx

\* label of the next row: the index of the raw table is 0, 1, 2, ... and a row
\* the transformer removed (a duplicate, an invalid e-mail) leaves a gap
NextLabels == {LastIdx + 1, LastIdx + 2}

NewStats(n) == [total |-> n, inserted |-> 0, updated |-> 0, failed |-> 0, errors |-> <<>>]

Init ==
    /\ students \in {{}, {SeedA}}
    /\ view = students
    /\ aborted = FALSE
    /\ txnNo = 1
    /\ ended = <<>>
    /\ nextId = 3
    /\ foreign = 0
    /\ lastCall = NoCall
    /\ ncalls = 0
    /\ IdleBatch
    /\ IdleCatalog
    /\ IdleEtl

\* load_students_batch(df, batch_size): stats initialised, connection opened
load_students_batch_Enter ==
    /\ pc = "idle"
    /\ \E n \in 0..MaxRows, bs \in 1..MaxBatch :
         /\ total' = n
         /\ batch_size' = bs
         /\ stats' = NewStats(n)
    /\ pc' = "loop"
    /\ df' = <<>>
    /\ log' = <<>>
    /\ view' = students
    /\ aborted' = FALSE
    /\ UNCHANGED <<students, txnNo, ended, nextId, foreign, lastCall, ncalls>>
    /\ UNCHANGED catalogVars
    /\ UNCHANGED etlVars

\* stats after one record (lines 355-366)
CountOutcome(st, idx, r, res) ==
    IF res.ok
    THEN IF res.msg = "inserted"
         THEN [st EXCEPT !.inserted = @ + 1]
         ELSE [st EXCEPT !.updated = @ + 1]
    ELSE [st EXCEPT !.failed = @ + 1,
                    !.errors = Append(@, [row |-> idx, email |-> r.email, error |-> res.msg])]

\* if (idx + 1) % batch_size == 0: conn.commit()
BatchBoundary(idx, bs) == (idx + 1) % bs = 0

\* one iteration of the loop over df.iterrows(): the row labelled idx with
\* student_data r; race says a concurrent writer commits r's e-mail in between
ProcessRow(idx, r, race) ==
    \E existing \in FetchOne(SelectExisting(view, r)) :
        /\ race => (foreign < MaxForeign /\ ~aborted /\ existing = NoId)
        /\ LET res == upsert_student(Cursor(view, aborted, nextId, txnNo), r, existing, race)
               cur == res.cur
               base == students \cup cur.added
               commit == BatchBoundary(idx, batch_size)
           IN  /\ stats' = CountOutcome(stats, idx, r, res)
               /\ df' = Append(df, [idx |-> idx, rec |-> r])
               /\ log' = Append(log, [idx |-> idx, email |-> r.email, ok |-> res.ok,
                                       msg |-> res.msg, id |-> res.id, txn |-> txnNo])
               /\ nextId' = cur.nextId
               /\ foreign' = foreign + Cardinality(cur.added)
               /\ IF commit
                  THEN /\ students' = CommitRows(base, cur)
                       /\ view' = students'
                       /\ aborted' = FALSE
                       /\ txnNo' = txnNo + 1
                       /\ ended' = Append(ended, EndOf(cur.aborted))
                  ELSE /\ students' = base
                       /\ view' = cur.rows
                       /\ aborted' = cur.aborted
                       /\ UNCHANGED <<txnNo, ended>>

load_students_batch_Row ==
    /\ pc = "loop"
    /\ Len(df) < total
    /\ \E idx \in NextLabels, r \in BatchRecords, race \in BOOLEAN :
        /\ \A i \in 1..Len(df) : df[i].rec.email # r.email /\ df[i].rec.student_code # r.student_code
        /\ ProcessRow(idx, r, race)
    /\ UNCHANGED <<pc, total, batch_size, lastCall, ncalls>>
    /\ UNCHANGED catalogVars
    /\ UNCHANGED etlVars

\* the with-blocks are left: get_connection commits and closes, stats is returned
LeaveConnection ==
    /\ students' = CommitRows(students, Cursor(view, aborted, nextId, txnNo))
    /\ view' = students'
    /\ aborted' = FALSE
    /\ txnNo' = txnNo + 1
    /\ ended' = Append(ended, EndOf(aborted))

load_students_batch_Return ==
    /\ pc = "loop"
    /\ Len(df) = total
    /\ LeaveConnection
    /\ ret' = stats
    /\ pc' = "done"
    /\ UNCHANGED <<nextId, foreign, lastCall, ncalls, df, total, batch_size, stats, log>>
    /\ UNCHANGED <<courses, cview, enrollments, eview, nextCourseId>>
    /\ UNCHANGED etlVars

Next == load_students_batch_Enter \/ load_students_batch_Row \/ load_students_batch_Return

Spec == Init /\ [][Next]_vars

---------------------------------------------------------------------------
(* Properties of load_students_batch (Spec) *)

\* the record at position i was refused by the server for a fault of its own
OwnFailure(i) == log[i].msg = "UniqueViolation"

\* the write of the record at position i is in the committed table
Durable(i) ==
    /\ log[i].ok
    /\ log[i].txn <= Len(ended) /\ ended[log[i].txn] = "commit"
    /\ \E x \in students : x.student_id = log[i].id

RECURSIVE ErrorsOf(_)
\* the errors entries the failed records of a log prefix must give, in order
ErrorsOf(l) ==
    IF l = <<>> THEN <<>>
    ELSE LET e == l[Len(l)]
             front == ErrorsOf(SubSeq(l, 1, Len(l) - 1))
         IN  IF e.ok THEN front
             ELSE Append(front, [row |-> e.idx, email |-> e.email, error |-> e.msg])

\* C2: a record whose upsert fails is recorded in the stats and does not abort
\* the transaction: when the load returns, every record that was not itself
\* refused is counted as inserted or updated and its row is committed.
C2_FailureLeavesOthersLoaded ==
    pc = "done" =>
        /\ stats.failed = Cardinality({i \in 1..Len(log) : OwnFailure(i)})
        /\ \A i \in 1..Len(log) : ~OwnFailure(i) => Durable(i)

\* C3: when the load returns, total is the number of rows and equals
\* inserted + updated + failed, errors has one entry per failed record in
\* input order with its row index, email and reason, and inserted / updated
\* are the numbers of rows this call created / modified in the store.
C3_StatsMatchStore ==
    pc = "done" =>
        /\ stats.total = Len(df)
        /\ stats.total = stats.inserted + stats.updated + stats.failed
        /\ stats.errors = ErrorsOf(log)
        /\ stats.inserted =
              Cardinality({i \in 1..Len(log) : log[i].msg = "inserted" /\ Durable(i)})
        /\ stats.updated =
              Cardinality({i \in 1..Len(log) : log[i].msg = "updated" /\ Durable(i)})

\* records processed in the open transaction, not yet committed
Uncommitted == Cardinality({i \in 1..Len(log) : log[i].txn = txnNo})

\* C4: a commit is issued after every batch_size processed records: at no
\* point of the loop are more than batch_size processed records uncommitted,
\* whatever the index labels of the table.
C4_AtMostOneBatchUncommitted ==
    pc = "loop" => Uncommitted <= batch_size

---------------------------------------------------------------------------
(* DatabaseLoader.upsert_course and upsert_enrollment *)

\* dict.get(key, default)
Get(data, key, default) == IF key \in DOMAIN data THEN data[key] ELSE default

DefaultMaxEnrollment == 30

\* A cursor over the three tables.
CatalogCursor(s, c, e, ab, nid, now) ==
    [students |-> s, courses |-> c, enrollments |-> e, aborted |-> ab,
     nextCourseId |-> nid, now |-> now]

Result(cur, ok, msg) == [cur |-> cur, ok |-> ok, msg |-> msg]

\* INSERT INTO courses ... ON CONFLICT (course_code) DO UPDATE SET
\*   course_name, credits, max_enrollment = EXCLUDED.*, updated_at = CURRENT_TIMESTAMP
\* The course_id default is drawn from the sequence before the conflict is seen.
UpsertCourseRow_KeepCredits(cur, data, department_id) ==
    LET old == {x \in cur.courses : x.course_code = data.course_code}
        cur1 == [cur EXCEPT !.nextCourseId = @ + 1]
        proposed == [course_id |-> cur.nextCourseId, course_code |-> data.course_code,
                     course_name |-> data.course_name, credits |-> data.credits,
                     department_id |-> department_id,
                     max_enrollment |-> Get(data, "max_enrollment", DefaultMaxEnrollment),
                     updated_at |-> cur.now]
    IN  IF old = {}
        THEN Result([cur1 EXCEPT !.courses = @ \cup {proposed}], TRUE, "upserted")
        ELSE Result([cur1 EXCEPT !.courses =
                        (@ \ old) \cup {[x EXCEPT !.course_name = proposed.course_name,
                                                   !.max_enrollment = proposed.max_enrollment,
                                                   !.updated_at = cur.now] : x \in old}],
                    TRUE, "upserted")

UpsertCourseRow(cur, data, department_id) ==
    LET old == {x \in cur.courses : x.course_code = data.course_code}
        cur1 == [cur EXCEPT !.nextCourseId = @ + 1]
        proposed == [course_id |-> cur.nextCourseId, course_code |-> data.course_code,
                     course_name |-> data.course_name, credits |-> data.credits,
                     department_id |-> department_id,
                     max_enrollment |-> Get(data, "max_enrollment", DefaultMaxEnrollment),
                     updated_at |-> cur.now]
    IN  IF old = {}
        THEN Result([cur1 EXCEPT !.courses = @ \cup {proposed}], TRUE, "upserted")
        ELSE Result([cur1 EXCEPT !.courses =
                        (@ \ old) \cup {[x EXCEPT !.course_name = proposed.course_name,
                                                   !.credits = proposed.credits,
                                                   !.max_enrollment = proposed.max_enrollment,
                                                   !.updated_at = cur.now] : x \in old}],
                    TRUE, "upserted")

\* upsert_course(cursor, data) -> (success, message)
upsert_course(cur, data) ==
    IF cur.aborted
    THEN Result(cur, FALSE, "InFailedSqlTransaction")
    ELSE LET dept == {d \in Departments : d.department_code = data.department_code}
         IN  IF dept = {}
             THEN Result(cur, FALSE, "Department not found")
             ELSE UpsertCourseRow(cur, data, (CHOOSE d \in dept : TRUE).department_id)

\* INSERT INTO enrollments (student_id, course_id, grade, status)
\* VALUES (.., 'Enrolled') ON CONFLICT (student_id, course_id) DO UPDATE SET
\*   grade = EXCLUDED.grade, updated_at = CURRENT_TIMESTAMP
UpsertEnrollmentRow_NoOnConflict(cur, student_id, course_id, grade) ==
    LET old == {x \in cur.enrollments : x.student_id = student_id /\ x.course_id = course_id}
        proposed == [student_id |-> student_id, course_id |-> course_id, grade |-> grade,
                     status |-> "Enrolled", updated_at |-> cur.now]
    IN  IF old = {}
        THEN Result([cur EXCEPT !.enrollments = @ \cup {proposed}], TRUE, "upserted")
        ELSE Result([cur EXCEPT !.aborted = TRUE], FALSE, "UniqueViolation")

UpsertEnrollmentRow(cur, student_id, course_id, grade) ==
    LET old == {x \in cur.enrollments : x.student_id = student_id /\ x.course_id = course_id}
        proposed == [student_id |-> student_id, course_id |-> course_id, grade |-> grade,
                     status |-> "Enrolled", updated_at |-> cur.now]
    IN  IF old = {}
        THEN Result([cur EXCEPT !.enrollments = @ \cup {proposed}], TRUE, "upserted")
        ELSE Result([cur EXCEPT !.enrollments =
                        (@ \ old) \cup {[x EXCEPT !.grade = grade,
                                                   !.updated_at = cur.now] : x \in old}],
                    TRUE, "upserted")

\* upsert_enrollment(cursor, data) -> (success, message)
upsert_enrollment(cur, data) ==
    IF cur.aborted
    THEN Result(cur, FALSE, "InFailedSqlTransaction")
    ELSE LET student == {x \in cur.students : SqlEq(x.student_code, data.student_code)}
             course == {x \in cur.courses : SqlEq(x.course_code, data.course_code)}
         IN  IF student = {}
             THEN Result(cur, FALSE, "Student not found")
             ELSE IF course = {}
             THEN Result(cur, FALSE, "Course not found")
             ELSE UpsertEnrollmentRow(cur,
                                      (CHOOSE x \in student : TRUE).student_id,
                                      (CHOOSE x \in course : TRUE).course_id,
                                      Get(data, "grade", None))

---------------------------------------------------------------------------
(* SpecCatalog: load_courses and load_enrollments, one run after another *)

\* rows of a table transform_courses produced
CourseRecords ==
    {[course_code |-> c, course_name |-> "Logic", credits |-> 3, department_code |-> d] :
        c \in {"C1", "C2"}, d \in {"CS", "ZZ"}}
    \cup
    {[course_code |-> c, course_name |-> "Sets", credits |-> 4, department_code |-> d,
      max_enrollment |-> 50] : c \in {"C1", "C2"}, d \in {"CS", "ZZ"}}

\* rows of a table transform_enrollments produced
EnrollmentRecords ==
    {[student_code |-> sc, course_code |-> c] : sc \in {"S1", "S2", "S9"}, c \in {"C1", "C2"}}
    \cup
    {[student_code |-> sc, course_code |-> c, grade |-> "A"] :
        sc \in {"S1", "S2", "S9"}, c \in {"C1", "C2"}}

SeedCourse == [course_id |-> 1, course_code |-> "C1", course_name |-> "Algebra",
               credits |-> 6, department_id |-> "d2", max_enrollment |-> 40,
               updated_at |-> 0]

InitCatalog ==
    /\ students = {SeedA, SeedB}
    /\ view = students
    /\ aborted = FALSE
    /\ txnNo = 1
    /\ ended = <<>>
    /\ nextId = 3
    /\ foreign = 0
    /\ lastCall = NoCall
    /\ ncalls = 0
    /\ IdleBatch
    /\ courses \in {{}, {SeedCourse}}
    /\ cview = courses
    /\ enrollments = {}
    /\ eview = {}
    /\ nextCourseId = 2
    /\ ret = "unset"
    /\ IdleEtl

Tables(c, e) == [courses |-> c, enrollments |-> e]

\* with self.get_connection() as conn: cursor = conn.cursor()
EnterLoad(kind) ==
    /\ pc \in {"idle", "returned"}
    /\ ncalls < MaxOps
    /\ \E n \in 1..(MaxOps - ncalls) : total' = n
    /\ pc' = kind
    /\ log' = <<>>
    /\ ret' = "unset"
    /\ view' = students /\ cview' = courses /\ eview' = enrollments
    /\ aborted' = FALSE
    /\ UNCHANGED <<students, txnNo, ended, nextId, foreign, lastCall, ncalls>>
    /\ UNCHANGED <<df, batch_size, stats, courses, enrollments, nextCourseId>>
    /\ UNCHANGED etlVars

load_courses_Enter == EnterLoad("courses")

load_enrollments_Enter == EnterLoad("enrollments")

\* for _, row in df.iterrows(): self.upsert_course(cursor, row.to_dict())
load_courses_Row ==
    /\ pc = "courses"
    /\ Len(log) < total
    /\ \E data \in CourseRecords :
        LET res == upsert_course(
                     CatalogCursor(view, cview, eview, aborted, nextCourseId, txnNo), data)
        IN  /\ cview' = res.cur.courses
            /\ aborted' = res.cur.aborted
            /\ nextCourseId' = res.cur.nextCourseId
            /\ lastCall' = [op |-> "upsert_course", rec |-> data, ok |-> res.ok,
                            msg |-> res.msg, before |-> Tables(cview, eview),
                            healthy |-> ~aborted]
            /\ log' = Append(log, [ok |-> res.ok, msg |-> res.msg])
    /\ ncalls' = ncalls + 1
    /\ UNCHANGED <<students, view, txnNo, ended, nextId, foreign>>
    /\ UNCHANGED <<pc, df, total, batch_size, stats>>
    /\ UNCHANGED <<courses, enrollments, eview, ret>>
    /\ UNCHANGED etlVars

\* for _, row in df.iterrows(): self.upsert_enrollment(cursor, row.to_dict())
load_enrollments_Row ==
    /\ pc = "enrollments"
    /\ Len(log) < total
    /\ \E data \in EnrollmentRecords :
        LET res == upsert_enrollment(
                     CatalogCursor(view, cview, eview, aborted, nextCourseId, txnNo), data)
        IN  /\ eview' = res.cur.enrollments
            /\ aborted' = res.cur.aborted
            /\ lastCall' = [op |-> "upsert_enrollment", rec |-> data, ok |-> res.ok,
                            msg |-> res.msg, before |-> Tables(cview, eview),
                            healthy |-> ~aborted]
            /\ log' = Append(log, [ok |-> res.ok, msg |-> res.msg])
    /\ ncalls' = ncalls + 1
    /\ UNCHANGED <<students, view, txnNo, ended, nextId, foreign>>
    /\ UNCHANGED <<pc, df, total, batch_size, stats>>
    /\ UNCHANGED <<courses, cview, enrollments, nextCourseId, ret>>
    /\ UNCHANGED etlVars

\* what load_courses and load_enrollments hand back: they have no return statement
LoadReturnValue(l) == None

\* conn.commit() after the loop, then get_connection commits again and closes
ReturnLoad(kind) ==
    /\ pc = kind
    /\ Len(log) = total
    /\ courses' = IF aborted THEN courses ELSE cview
    /\ enrollments' = IF aborted THEN enrollments ELSE eview
    /\ cview' = courses'
    /\ eview' = enrollments'
    /\ aborted' = FALSE
    /\ txnNo' = txnNo + 2
    /\ ended' = ended \o <<EndOf(aborted), "commit">>
    /\ ret' = LoadReturnValue(log)
    /\ pc' = "returned"
    /\ lastCall' = [NoCall EXCEPT !.op = "commit"]
    /\ UNCHANGED <<students, view, nextId, foreign, ncalls>>
    /\ UNCHANGED <<df, total, batch_size, stats, log, nextCourseId>>
    /\ UNCHANGED etlVars

load_courses_Return == ReturnLoad("courses")

load_enrollments_Return == ReturnLoad("enrollments")

NextCatalog ==
    \/ load_courses_Enter \/ load_courses_Row \/ load_courses_Return
    \/ load_enrollments_Enter \/ load_enrollments_Row \/ load_enrollments_Return

SpecCatalog == InitCatalog /\ [][NextCatalog]_vars

---------------------------------------------------------------------------
(* Properties of the course and enrollment loads (SpecCatalog) *)

CourseRows(rows, code) == {x \in rows : x.course_code = code}

\* the row of the record's course_code holds the record's values, and it is the
\* only row of that code: updated in place if the code was stored, else added
CourseStored(before, after, d) ==
    /\ Cardinality(CourseRows(after, d.course_code)) = 1
    /\ \A x \in CourseRows(after, d.course_code) :
          /\ x.course_name = d.course_name
          /\ x.credits = d.credits
          /\ x.max_enrollment = Get(d, "max_enrollment", DefaultMaxEnrollment)
    /\ Cardinality(after) =
          Cardinality(before) + (IF CourseRows(before, d.course_code) = {} THEN 1 ELSE 0)

\* C7 as claimed: upsert_course sets course_name, credits and max_enrollment
\* of the stored row of the record's course_code to the record's values and
\* creates no second row; for a code not yet stored it inserts exactly one row.
C7_CourseAlwaysOverwritten ==
    lastCall.op = "upsert_course" =>
        CourseStored(lastCall.before.courses, cview, lastCall.rec)

\* C7 amended: when the record's department_code is in the departments table
\* and no earlier statement of the transaction has failed, upsert_course
\* succeeds and does the above, leaving every other row and the stored row's
\* course_id and department_id as they were; in every other case it returns
\* a failure and changes no course row.
C7_CourseOverwrittenIfDepartmentFound ==
    lastCall.op = "upsert_course" =>
        LET d == lastCall.rec
            before == lastCall.before.courses
        IN  IF lastCall.healthy /\ d.department_code \in DepartmentCodes
            THEN /\ lastCall.ok
                 /\ CourseStored(before, cview, d)
                 /\ \A x \in before :
                       IF x.course_code = d.course_code
                       THEN \E y \in cview : /\ y.course_id = x.course_id
                                              /\ y.course_code = x.course_code
                                              /\ y.department_id = x.department_id
                       ELSE x \in cview
            ELSE ~lastCall.ok /\ cview = before

\* a stored course is overwritten by a record with other values
C7_Witness ==
    /\ lastCall.op = "upsert_course" /\ lastCall.ok
    /\ SeedCourse \in lastCall.before.courses
    /\ lastCall.rec.course_code = SeedCourse.course_code
    /\ "max_enrollment" \notin DOMAIN lastCall.rec
    /\ \E x \in cview : x.course_id = SeedCourse.course_id /\ x.credits = 3

\* C8: upsert_enrollment for a record whose student_code or course_code
\* matches no row returns a failure ('Student not found' / 'Course not found'
\* when the lookup ran), writes no enrollment row and is called once per
\* record; when both lookups resolve it succeeds and the table holds exactly
\* one row for that (student_id, course_id), however often it is upserted.
C8_EnrollmentNeedsBothKeys ==
    /\ \A x, y \in eview : (x.student_id = y.student_id /\ x.course_id = y.course_id) => x = y
    /\ pc = "enrollments" => Len(log) <= total
    /\ lastCall.op = "upsert_enrollment" =>
        LET d == lastCall.rec
            student == {x \in view : x.student_code = d.student_code}
            course == {x \in lastCall.before.courses : x.course_code = d.course_code}
        IN  /\ ~lastCall.ok => eview = lastCall.before.enrollments
            /\ (student = {} \/ course = {}) => ~lastCall.ok
            /\ (lastCall.healthy /\ student = {}) =>
                  lastCall.msg = "Student not found"
            /\ (lastCall.healthy /\ student # {} /\ course = {}) =>
                  lastCall.msg = "Course not found"
            /\ (lastCall.healthy /\ student # {} /\ course # {}) =>
                  /\ lastCall.ok
                  /\ \A s \in student, c \in course :
                        Cardinality({x \in eview : /\ x.student_id = s.student_id
                                                   /\ x.course_id = c.course_id}) = 1

\* the same enrollment is upserted a second time
C8_Witness ==
    /\ lastCall.op = "upsert_enrollment" /\ lastCall.ok
    /\ lastCall.before.enrollments # {}
    /\ Cardinality(eview) = Cardinality(lastCall.before.enrollments)

\* the statistics a load owes its caller for the records in l
ExpectedLoadStats(l) ==
    [total |-> Len(l),
     failed |-> Cardinality({i \in 1..Len(l) : ~l[i].ok}),
     errors |-> {[row |-> i - 1, error |-> l[i].msg] : i \in {j \in 1..Len(l) : ~l[j].ok}}]

\* C10: every per-record failure of a course load or an enrollment load is
\* recorded in load statistics returned to the caller, which say how many
\* records succeeded, how many failed, and why.
C10_LoadFailuresReturned ==
    (pc = "returned" /\ \E i \in 1..Len(log) : ~log[i].ok) =>
        (ret # None /\ ret = ExpectedLoadStats(log))

---------------------------------------------------------------------------
(* DataTransformer (src/etl/transform.py)                                  *)
(*                                                                         *)
(* A cell of a table is a tuple.  A text is the tuple of its characters;   *)
(* a float is <<"float", t>> with t the value in tenths; float('nan'),     *)
(* which pandas puts in an empty cell, is CellNaN, and Python None, which  *)
(* the normalisers return, is CellNone.  A character is a string of        *)
(* length one, so no text equals a float or one of the two markers.        *)
(* A table is a set of column names and a sequence of rows; a row carries  *)
(* its index label (idx) and one cell per column the model knows.  The     *)
(* columns modelled are email, student_code, gpa, department_code, gender, *)
(* graduation_year and date_of_birth.  The casts of step 6 add three more  *)
(* kinds of cell: an Int64 <<"int", n>>, pd.NA, a date <<"date", y, m, d>> *)
(* and NaT.                                                                *)

CellNaN == <<"nan">>
CellNone == <<"None">>
CellNA == <<"NA">>
CellNaT == <<"NaT">>

\* pd.isna / pd.notna on a cell
pd_isna(c) == c \in {CellNaN, CellNone, CellNA, CellNaT}

IsFloat(c) == Len(c) = 2 /\ c[1] = "float"
Float(t) == <<"float", t>>

Lowercase == <<"a", "b", "c", "d", "e", "f", "g", "h", "i", "j", "k", "l", "m",
               "n", "o", "p", "q", "r", "s", "t", "u", "v", "w", "x", "y", "z">>
Uppercase == <<"A", "B", "C", "D", "E", "F", "G", "H", "I", "J", "K", "L", "M",
               "N", "O", "P", "Q", "R", "S", "T", "U", "V", "W", "X", "Y", "Z">>
Digits == <<"0", "1", "2", "3", "4", "5", "6", "7", "8", "9">>
Whitespace == {" ", "\t"}

Range(f) == {f[i] : i \in DOMAIN f}

\* the function f on 1..n as the sequence of its values
AsSeq(f) == f \o <<>>
Letters == Range(Lowercase) \cup Range(Uppercase)
DigitSet == Range(Digits)

IsAlpha(c) == c \in Letters
IsDigit(c) == c \in DigitSet

\* str(n) for a natural number
RECURSIVE NaturalText(_)
NaturalText(n) ==
    IF n < 10 THEN <<Digits[n + 1]>>
    ELSE Append(NaturalText(n \div 10), Digits[(n % 10) + 1])

\* str(value): a text is itself, a float is written with its one decimal
str(value) ==
    IF IsFloat(value)
    THEN LET t == value[2]
             a == IF t < 0 THEN 0 - t ELSE t
         IN  (IF t < 0 THEN <<"-">> ELSE <<>>)
             \o NaturalText(a \div 10) \o <<".">> \o NaturalText(a % 10)
    ELSE value

\* str.title: a letter that follows no letter is put in upper case, every
\* other letter in lower case
title(s) ==
    AsSeq([i \in 1..Len(s) |->
              IF ~IsAlpha(s[i]) THEN s[i]
              ELSE LET k == CHOOSE k \in 1..26 : s[i] \in {Lowercase[k], Uppercase[k]}
                   IN  IF i = 1 \/ ~IsAlpha(s[i - 1]) THEN Uppercase[k] ELSE Lowercase[k]])

\* str.lower
lower(s) ==
    AsSeq([i \in 1..Len(s) |->
              IF s[i] \in Range(Uppercase)
              THEN Lowercase[CHOOSE k \in 1..26 : Uppercase[k] = s[i]]
              ELSE s[i]])

RECURSIVE lstrip(_)
lstrip(s) == IF s # <<>> /\ Head(s) \in Whitespace THEN lstrip(Tail(s)) ELSE s

RECURSIVE rstrip(_)
rstrip(s) ==
    IF s # <<>> /\ s[Len(s)] \in Whitespace THEN rstrip(SubSeq(s, 1, Len(s) - 1)) ELSE s

\* str.strip
strip(s) == rstrip(lstrip(s))

\* re.sub(r'\s+', ' ', s)
RECURSIVE CollapseWhitespace(_)
CollapseWhitespace(s) ==
    IF s = <<>> THEN <<>>
    ELSE IF Head(s) \in Whitespace THEN <<" ">> \o CollapseWhitespace(lstrip(s))
    ELSE <<Head(s)>> \o CollapseWhitespace(Tail(s))

clean_string(value) ==
    IF pd_isna(value) THEN CellNone
    ELSE LET cleaned == CollapseWhitespace(strip(str(value)))
         IN  IF cleaned # <<>> THEN cleaned ELSE CellNone

normalize_email(email) ==
    LET cleaned == clean_string(email)
    IN  IF cleaned # CellNone THEN lower(cleaned) ELSE CellNone

\* EMAIL_PATTERN = ^[a-zA-Z0-9._%+-]+@[a-zA-Z0-9.-]+\.[a-zA-Z]{2,}$
LocalChar(c) == IsAlpha(c) \/ IsDigit(c) \/ c \in {".", "_", "%", "+", "-"}
DomainChar(c) == IsAlpha(c) \/ IsDigit(c) \/ c \in {".", "-"}
MinTld == 2

EMAIL_PATTERN(s) ==
    \E at \in {i \in 2..Len(s) : s[i] = "@"} :
      \E dot \in {i \in (at + 2)..Len(s) : s[i] = "."} :
        /\ Len(s) - dot >= MinTld
        /\ \A i \in 1..(at - 1) : LocalChar(s[i])
        /\ \A i \in (at + 1)..(dot - 1) : DomainChar(s[i])
        /\ \A i \in (dot + 1)..Len(s) : IsAlpha(s[i])

validate_email(email) ==
    IF pd_isna(email) THEN FALSE ELSE EMAIL_PATTERN(strip(str(email)))

\* float(x): the literals  [sign] digits [. digit]  are read, in tenths; any
\* other text raises ValueError
ValueError == <<"ValueError">>

DigitValue(c) == (CHOOSE i \in 1..10 : Digits[i] = c) - 1

RECURSIVE Natural(_)
Natural(s) == IF s = <<>> THEN 0 ELSE 10 * Natural(SubSeq(s, 1, Len(s) - 1)) + DigitValue(s[Len(s)])

Unsigned(s) ==
    IF s # <<>> /\ \A i \in 1..Len(s) : IsDigit(s[i]) THEN Float(10 * Natural(s))
    ELSE IF /\ Len(s) >= 3
            /\ s[Len(s) - 1] = "."
            /\ \A i \in (1..Len(s)) \ {Len(s) - 1} : IsDigit(s[i])
         THEN Float(10 * Natural(SubSeq(s, 1, Len(s) - 2)) + DigitValue(s[Len(s)]))
         ELSE ValueError

float(x) ==
    IF IsFloat(x) THEN x
    ELSE LET s == strip(x)
         IN  IF s # <<>> /\ Head(s) = "-"
             THEN LET u == Unsigned(Tail(s)) IN IF u = ValueError THEN u ELSE Float(0 - u[2])
             ELSE IF s # <<>> /\ Head(s) = "+" THEN Unsigned(Tail(s))
             ELSE Unsigned(s)

GpaMin == 0
GpaMax == 40

validate_gpa(gpa) ==
    IF pd_isna(gpa) THEN TRUE
    ELSE LET gpa_float == float(gpa)
         IN  IF gpa_float = ValueError THEN FALSE
             ELSE GpaMin <= gpa_float[2] /\ gpa_float[2] <= GpaMax

\* pd.to_numeric(errors='coerce') on one cell
to_numeric(c) ==
    IF pd_isna(c) THEN CellNaN
    ELSE IF float(c) = ValueError THEN CellNaN ELSE float(c)

clip_UpperOnly(c, lo, hi) ==
    IF c = CellNaN THEN c
    ELSE IF c[2] > hi THEN Float(hi)
    ELSE c

\* Series.clip(lower, upper) on one cell: NaN stays NaN
clip(c, lo, hi) ==
    IF c = CellNaN THEN c
    ELSE IF c[2] < lo THEN Float(lo)
    ELSE IF c[2] > hi THEN Float(hi)
    ELSE c

VALID_DEPARTMENTS ==
    {<<"C", "S">>, <<"M", "A", "T", "H">>, <<"P", "H", "Y">>, <<"E", "N", "G">>,
     <<"B", "I", "O">>, <<"C", "H", "E", "M">>, <<"E", "C", "O", "N">>, <<"P", "S", "Y">>}

VALID_GENDERS ==
    {<<"M", "a", "l", "e">>, <<"F", "e", "m", "a", "l", "e">>, <<"O", "t", "h", "e", "r">>,
     <<"P", "r", "e", "f", "e", "r", " ", "n", "o", "t", " ", "t", "o", " ", "s", "a", "y">>}

\* df[mask]: the rows whose mask entry is true, in order, labels kept
RECURSIVE BooleanIndex(_, _)
BooleanIndex(rows, mask) ==
    LET n == Len(rows)
        half == n \div 2
    IN  IF n = 0 THEN <<>>
        ELSE IF n = 1 THEN (IF mask[1] THEN rows ELSE <<>>)
        ELSE BooleanIndex(SubSeq(rows, 1, half), SubSeq(mask, 1, half))
             \o BooleanIndex(SubSeq(rows, half + 1, n), SubSeq(mask, half + 1, n))

\* df[column] = df[column].apply(f), given the new cells
SetColumn(rows, column, cells) ==
    AsSeq([i \in 1..Len(rows) |-> [rows[i] EXCEPT ![column] = cells[i]]])

drop_duplicates_NaDistinct(rows, column) ==
    BooleanIndex(rows, AsSeq([i \in 1..Len(rows) |->
                                 ~\E j \in 1..(i - 1) :
                                     /\ ~pd_isna(rows[i][column])
                                     /\ rows[j][column] = rows[i][column]]))

\* DataFrame.drop_duplicates(subset=[column], keep='first'): a row goes when an
\* earlier row has the same cell; two missing cells count as the same
drop_duplicates(rows, column) ==
    BooleanIndex(rows, AsSeq([i \in 1..Len(rows) |->
                                 ~\E j \in 1..(i - 1) : rows[j][column] = rows[i][column]]))

\* deduplicate(df, subset): the table and what it appends to transformation_log
deduplicate(rows, column) ==
    LET df_deduped == drop_duplicates(rows, column)
        removed_count == Len(rows) - Len(df_deduped)
    IN  [rows |-> df_deduped,
         log |-> IF removed_count > 0
                 THEN <<[step |-> "Deduplication", removed |-> removed_count]>>
                 ELSE <<>>]

ValidationErrors_Position(invalid, column, error) ==
    AsSeq([i \in 1..Len(invalid) |->
              [row |-> i - 1, column |-> column, value |-> invalid[i][column],
               error |-> error]])

\* the entries appended to validation_errors for the rows in invalid
ValidationErrors(invalid, column, error) ==
    AsSeq([i \in 1..Len(invalid) |->
              [row |-> invalid[i].idx, column |-> column, value |-> invalid[i][column],
               error |-> error]])

Int64(n) == <<"int", n>>
Date(y, m, d) == <<"date", y, m, d>>

\* Series.astype('Int64') on the cells to_numeric gave: NaN becomes pd.NA and a
\* whole number an integer; a number with a fraction makes the cast raise
\* TypeError
TypeError == <<"TypeError">>
astype_Int64(cells) ==
    IF \E i \in 1..Len(cells) : cells[i] # CellNaN /\ cells[i][2] % 10 # 0
    THEN TypeError
    ELSE AsSeq([i \in 1..Len(cells) |->
                   IF cells[i] = CellNaN THEN CellNA ELSE Int64(cells[i][2] \div 10)])

DaysIn(y, m) ==
    IF m = 2 THEN (IF y % 4 = 0 /\ (y % 100 # 0 \/ y % 400 = 0) THEN 29 ELSE 28)
    ELSE IF m \in {4, 6, 9, 11} THEN 30 ELSE 31

\* pd.to_datetime(errors='coerce').dt.date on one cell: a text YYYY-MM-DD that
\* names a day is that date, a number counts nanoseconds from 1970-01-01, any
\* other text and a missing cell give NaT
to_datetime(c) ==
    IF pd_isna(c) THEN CellNaT
    ELSE IF IsFloat(c) THEN Date(1970, 1, 1)
    ELSE IF /\ Len(c) = 10 /\ c[5] = "-" /\ c[8] = "-"
            /\ \A i \in {1, 2, 3, 4, 6, 7, 9, 10} : IsDigit(c[i])
         THEN LET y == Natural(SubSeq(c, 1, 4))
                  m == Natural(SubSeq(c, 6, 7))
                  d == Natural(SubSeq(c, 9, 10))
              IN  IF y >= 1 /\ m \in 1..12 /\ d \in 1..DaysIn(y, m) THEN Date(y, m, d)
                  ELSE CellNaT
         ELSE CellNaT

\* cast_types(df, {'graduation_year': int, 'gpa': float, 'date_of_birth': 'date'}):
\* the table, and the entries it appends to validation_errors for the casts
\* that raised (such a column is left as it was)
cast_types(columns, rows) ==
    LET n == Len(rows)
        years == IF "graduation_year" \in columns
                 THEN astype_Int64(AsSeq([i \in 1..n |-> to_numeric(rows[i].graduation_year)]))
                 ELSE <<>>
        with_year == IF "graduation_year" \in columns /\ years # TypeError
                     THEN SetColumn(rows, "graduation_year", years)
                     ELSE rows
        with_gpa == IF "gpa" \in columns
                    THEN SetColumn(with_year, "gpa",
                                   [i \in 1..n |-> to_numeric(with_year[i].gpa)])
                    ELSE with_year
        with_date == IF "date_of_birth" \in columns
                     THEN SetColumn(with_gpa, "date_of_birth",
                                    [i \in 1..n |-> to_datetime(with_gpa[i].date_of_birth)])
                     ELSE with_gpa
    IN  [rows |-> with_date,
         errors |-> IF "graduation_year" \in columns /\ years = TypeError
                    THEN <<[column |-> "graduation_year", error |-> "Type casting failed"]>>
                    ELSE <<>>]

NoRows == <<>>

(* transform_students works on one table, step after step; here the table  *)
(* in progress is a record of its columns and rows, the validation_errors   *)
(* and transformation_log written so far, and the exception that ended the  *)
(* call ("" while none has).                                                 *)
NoError == ""

StartTransform(frame) ==
    [columns |-> frame.columns, rows |-> frame.rows, validation_errors |-> <<>>,
     transformation_log |-> <<>>, error |-> NoError]

\* Step 1: clean and normalize emails
CleanEmails(t) ==
    IF "email" \in t.columns
    THEN [t EXCEPT !.rows = SetColumn(t.rows, "email",
                                [i \in 1..Len(t.rows) |-> normalize_email(t.rows[i].email)])]
    ELSE t

\* Step 2: validate emails
ValidateEmails(t) ==
    IF "email" \in t.columns
    THEN LET invalid_emails ==
                 BooleanIndex(t.rows,
                     [i \in 1..Len(t.rows) |-> ~validate_email(t.rows[i].email)])
         IN  [t EXCEPT !.validation_errors =
                           @ \o ValidationErrors(invalid_emails, "email",
                                                 "Invalid email format")]
    ELSE t

\* Step 3: validate and clean GPA
ValidateGpa(t) ==
    IF "gpa" \in t.columns
    THEN LET invalid_gpa ==
                 BooleanIndex(t.rows,
                     [i \in 1..Len(t.rows) |-> ~validate_gpa(t.rows[i].gpa)])
         IN  [t EXCEPT !.validation_errors =
                           @ \o ValidationErrors(invalid_gpa, "gpa",
                                                 "Invalid GPA (must be 0.0-4.0)"),
                       !.rows = SetColumn(t.rows, "gpa",
                                    [i \in 1..Len(t.rows) |->
                                        clip(to_numeric(t.rows[i].gpa), GpaMin, GpaMax)])]
    ELSE t

\* Step 4: validate department codes
ValidateDepartments(t) ==
    IF "department_code" \in t.columns
    THEN LET invalid_depts ==
                 BooleanIndex(t.rows,
                     [i \in 1..Len(t.rows) |->
                         /\ t.rows[i].department_code \notin VALID_DEPARTMENTS
                         /\ ~pd_isna(t.rows[i].department_code)])
         IN  [t EXCEPT !.validation_errors =
                           @ \o ValidationErrors(invalid_depts, "department_code",
                                                 "Invalid department code")]
    ELSE t

\* the gender cells after  x.strip().title() if pd.notna(x) else None
TitleGenders(rows) ==
    SetColumn(rows, "gender",
        [i \in 1..Len(rows) |->
            IF ~pd_isna(rows[i].gender) THEN title(strip(rows[i].gender)) ELSE CellNone])

\* Step 5: validate gender; x.strip() raises AttributeError when x is a number
ValidateGenders(t) ==
    IF "gender" \notin t.columns THEN t
    ELSE IF \E i \in 1..Len(t.rows) : IsFloat(t.rows[i].gender)
    THEN [t EXCEPT !.error = "AttributeError: 'float' object has no attribute 'strip'"]
    ELSE LET titled == TitleGenders(t.rows)
             invalid_gender ==
                 BooleanIndex(titled,
                     [i \in 1..Len(titled) |->
                         /\ titled[i].gender \notin VALID_GENDERS
                         /\ ~pd_isna(titled[i].gender)])
         IN  [t EXCEPT !.validation_errors =
                           @ \o ValidationErrors(invalid_gender, "gender", "Invalid gender"),
                       !.rows = titled]

\* Step 6: type casting
CastTypes(t) ==
    IF t.error # NoError THEN t
    ELSE LET cast == cast_types(t.columns, t.rows)
         IN  [t EXCEPT !.rows = cast.rows,
                       !.validation_errors = @ \o cast.errors]

\* Step 7: deduplicate, on the e-mail and then on the student code
Deduplicate(t) ==
    IF t.error # NoError THEN t
    ELSE LET by_email == IF "email" \in t.columns THEN deduplicate(t.rows, "email")
                         ELSE [rows |-> t.rows, log |-> <<>>]
             by_code == IF "student_code" \in t.columns
                        THEN deduplicate(by_email.rows, "student_code")
                        ELSE [rows |-> by_email.rows, log |-> <<>>]
         IN  [t EXCEPT !.rows = by_code.rows,
                       !.transformation_log = @ \o by_email.log \o by_code.log]

\* Step 8: remove rows with invalid emails; df['email'] raises KeyError when
\* the table has no such column
RemoveInvalid(t) ==
    IF t.error # NoError THEN t
    ELSE IF "email" \notin t.columns THEN [t EXCEPT !.error = "KeyError: 'email'"]
    ELSE LET valid_df ==
                 BooleanIndex(t.rows,
                     [i \in 1..Len(t.rows) |-> validate_email(t.rows[i].email)])
             removed == Len(t.rows) - Len(valid_df)
         IN  [t EXCEPT !.rows = valid_df,
                       !.transformation_log =
                           @ \o (IF removed > 0
                                 THEN <<[step |-> "Removed invalid", removed |-> removed]>>
                                 ELSE <<>>)]

\* what the call returns or raises, and what it leaves on the transformer
EndTransform(t) ==
    [raised |-> t.error # NoError, error |-> t.error,
     value |-> [columns |-> t.columns,
                rows |-> IF t.error # NoError THEN NoRows ELSE t.rows],
     validation_errors |-> t.validation_errors,
     transformation_log |-> t.transformation_log]

\* transform_students(df), df given as frame: the eight steps in order, each on
\* the table the step before left
transform_students(frame) ==
    CHOOSE res \in
        {EndTransform(t8) : t8 \in
        {RemoveInvalid(t7) : t7 \in
        {Deduplicate(t6) : t6 \in
        {CastTypes(t5) : t5 \in
        {ValidateGenders(t4) : t4 \in
        {ValidateDepartments(t3) : t3 \in
        {ValidateGpa(t2) : t2 \in
        {ValidateEmails(t1) : t1 \in
        {CleanEmails(t0) : t0 \in {StartTransform(frame)}}}}}}}}}} : TRUE

---------------------------------------------------------------------------
(* SpecTransform: transform_students applied to a raw table *)

MaxInput == 3        \* rows of the raw table

TextA == <<"a", "@", "x", ".", "c", "o", "m">>
TextA2 == <<" ", "A", "@", "X", ".", "c", "o", "m", " ">>
TextB == <<"b", "@", "x", ".", "c", "o", "m">>
TextBad == <<"b", "a", "d">>
TextS1 == <<"S", "1">>
TextS2 == <<"S", "2">>
TextCS == <<"C", "S">>
TextZZ == <<"Z", "Z">>
Gpa35 == <<"3", ".", "5">>
Gpa50 == <<"5", ".", "0">>
GpaNeg == <<"-", "1", ".", "0">>
GpaAbc == <<"a", "b", "c">>

AllColumns == {"email", "student_code", "gpa", "department_code"}

RawRow(email, student_code, gpa, department_code) ==
    [email |-> email, student_code |-> student_code, gpa |-> gpa,
     department_code |-> department_code]

\* Rows of a source: e-mails that are equal only once normalised, one student
\* code under two e-mails, missing codes and e-mails, an e-mail that is no
\* address, each GPA case, and a department code outside the enumeration.
RawRows ==
    {RawRow(TextA, TextS1, Gpa35, TextCS), RawRow(TextA2, TextS2, Gpa35, TextCS),
     RawRow(TextB, TextS1, Gpa35, TextCS), RawRow(TextB, TextS2, Gpa35, TextCS),
     RawRow(TextA, CellNaN, Gpa35, TextCS), RawRow(TextB, CellNaN, Gpa35, TextCS),
     RawRow(TextBad, TextS1, Gpa35, TextCS), RawRow(TextBad, TextS2, Gpa35, TextCS),
     RawRow(CellNaN, TextS2, Gpa35, TextCS)}
    \cup {RawRow(TextA, TextS1, g, TextCS) : g \in {Gpa50, GpaNeg, GpaAbc, CellNaN}}
    \cup {RawRow(TextB, TextS2, Gpa35, TextZZ)}

\* a source may lack a column: without email the final filter cannot run
ColumnSets == {AllColumns, AllColumns \ {"email"}, AllColumns \ {"student_code"}}

\* the table pandas builds from n source rows: labels 0 .. n-1, the given columns
Frame(columns, cells) ==
    [columns |-> columns,
     rows |-> AsSeq([i \in 1..Len(cells) |->
                        [f \in columns \cup {"idx"} |->
                            IF f = "idx" THEN i - 1 ELSE cells[i][f]]])]

RawTables ==
    {Frame(columns, cells) :
        columns \in ColumnSets, cells \in UNION {[1..n -> RawRows] : n \in 0..MaxInput}}

InitTransform ==
    /\ raw \in RawTables
    /\ transformer = FreshTransformer
    /\ runs = NoRuns
    /\ pipeline = "unset"
    /\ students = {} /\ view = {} /\ aborted = FALSE /\ txnNo = 1 /\ ended = <<>>
    /\ nextId = 1 /\ foreign = 0 /\ lastCall = NoCall /\ ncalls = 0
    /\ IdleBatch
    /\ IdleCatalog

\* transformed = transformer.transform_students(raw)
transform_students_Call ==
    /\ ~transformer.called
    /\ \E res \in {transform_students(raw)} :
         transformer' = [called |-> TRUE, raised |-> res.raised, error |-> res.error,
                         value |-> res.value,
                         validation_errors |-> res.validation_errors,
                         transformation_log |-> res.transformation_log]
    /\ UNCHANGED <<raw, pipeline, runs>>
    /\ UNCHANGED <<studentVars, lastCall, ncalls>>
    /\ UNCHANGED batchVars
    /\ UNCHANGED catalogVars

NextTransform == transform_students_Call

SpecTransform == InitTransform /\ [][NextTransform]_vars

---------------------------------------------------------------------------
(* Properties of transform_students (SpecTransform) *)

Transformed == transformer.called /\ ~transformer.raised
OutRows == transformer.value.rows
InOutput(label) == \E k \in 1..Len(OutRows) : OutRows[k].idx = label
OutRow(label) == OutRows[CHOOSE k \in 1..Len(OutRows) : OutRows[k].idx = label]
ReportEntries(label, column) ==
    {k \in 1..Len(transformer.validation_errors) :
        /\ "row" \in DOMAIN transformer.validation_errors[k]
        /\ transformer.validation_errors[k].row = label
        /\ transformer.validation_errors[k].column = column}

\* the e-mail of input row i after normalisation (missing when the table has
\* no such column) and whether it is an address
NormalizedEmail(i) ==
    IF "email" \in raw.columns THEN normalize_email(raw.rows[i].email) ELSE CellNone
InvalidEmail(i) == "email" \in raw.columns /\ ~validate_email(NormalizedEmail(i))

\* C17: every row of the output of transform_students carries a normalised
\* e-mail that passes validate_email, and every input row whose normalised
\* e-mail fails validation has an email entry in the validation report under
\* its own input index and is not in the output.  (A table without an email
\* column gives no output at all: the call raises.)
C17_OutputEmailsValid ==
    transformer.called =>
        IF transformer.raised THEN OutRows = <<>>
        ELSE /\ \A k \in 1..Len(OutRows) :
                   /\ validate_email(OutRows[k].email)
                   /\ OutRows[k].email = NormalizedEmail(OutRows[k].idx + 1)
             /\ \A i \in 1..Len(raw.rows) :
                   InvalidEmail(i) =>
                       /\ ReportEntries(raw.rows[i].idx, "email") # {}
                       /\ ~InOutput(raw.rows[i].idx)

\* a table whose second or later row has an e-mail that is no address, with an
\* earlier row removed and a later row kept under its input label
C17_Witness ==
    /\ Transformed
    /\ \E i \in 2..Len(raw.rows) :
          /\ InvalidEmail(i)
          /\ ReportEntries(i - 1, "email") # {}
          /\ \E k \in 1..Len(OutRows) :
                /\ OutRows[k].idx > k - 1
                /\ OutRows[k].email # raw.rows[OutRows[k].idx + 1].email

\* the student code of input row i (missing when the table has no such column)
StudentCode(i) == Get(raw.rows[i], "student_code", CellNaN)

\* input rows i and j share a present e-mail or a present student code
ShareKey(i, j) ==
    \/ ~pd_isna(NormalizedEmail(i)) /\ NormalizedEmail(i) = NormalizedEmail(j)
    \/ ~pd_isna(StudentCode(i)) /\ StudentCode(i) = StudentCode(j)

\* input row i is the first of its normalised e-mail, and also the first of its
\* student code among the rows that are the first of their e-mail
FirstOfEmail(i) == \A j \in 1..(i - 1) : NormalizedEmail(j) # NormalizedEmail(i)
FirstOfCode(i) ==
    /\ FirstOfEmail(i)
    /\ \A j \in 1..(i - 1) :
          FirstOfEmail(j) =>
              \/ pd_isna(StudentCode(i))
              \/ StudentCode(j) # StudentCode(i)

\* C18: transform_students deduplicates first by normalised e-mail, then by
\* student code: of the rows sharing an e-mail only the first survives, of the
\* survivors sharing a student code only the first survives, the survivors keep
\* their input order, and a row is removed as a duplicate only if it shares a
\* present e-mail or a present student code with an earlier row.
C18_DedupOnlySharedKeys ==
    Transformed =>
        /\ \A k \in 1..(Len(OutRows) - 1) : OutRows[k].idx < OutRows[k + 1].idx
        /\ \A i \in 1..Len(raw.rows) :
              ~InvalidEmail(i) =>
                 (InOutput(raw.rows[i].idx) <=> FirstOfCode(i))
        /\ \A i \in 1..Len(raw.rows) :
              (~InvalidEmail(i) /\ ~InOutput(raw.rows[i].idx)) =>
                  \E j \in 1..(i - 1) : ShareKey(i, j)

\* rows removed by the two deduplications, as transformation_log counts them
RECURSIVE DedupRemoved(_)
DedupRemoved(l) ==
    IF l = <<>> THEN 0
    ELSE (IF Head(l).step = "Deduplication" THEN Head(l).removed ELSE 0) + DedupRemoved(Tail(l))

InvalidEmailRows == {i \in 1..Len(raw.rows) : InvalidEmail(i)}

\* input row i is removed by a deduplication: it has the e-mail cell of an
\* earlier row, or the student code cell of an earlier row that was the first
\* of its e-mail (two missing cells count as the same)
IsDuplicate(i) ==
    \/ \E j \in 1..(i - 1) : NormalizedEmail(j) = NormalizedEmail(i)
    \/ /\ "student_code" \in raw.columns
       /\ \E j \in 1..(i - 1) :
             /\ \A h \in 1..(j - 1) : NormalizedEmail(h) # NormalizedEmail(j)
             /\ StudentCode(j) = StudentCode(i)

DuplicateRows == {i \in 1..Len(raw.rows) : IsDuplicate(i)}

\* C19 as stated: rows out = rows in - invalid-email rows - rows removed by
\* deduplication, also when an invalid-email row is itself a duplicate.
C19_CountMinusInvalidMinusDuplicates ==
    Transformed =>
        Len(OutRows) = Len(raw.rows) - Cardinality(InvalidEmailRows)
                                      - DedupRemoved(transformer.transformation_log)

\* C19, amended: rows out = rows in - rows removed by deduplication - the
\* invalid-email rows that no deduplication removed; the deduplications remove
\* exactly the duplicate rows.
C19_CountMinusDuplicatesMinusSurvivingInvalid ==
    Transformed =>
        /\ DedupRemoved(transformer.transformation_log) = Cardinality(DuplicateRows)
        /\ Len(OutRows) = Len(raw.rows) - Cardinality(DuplicateRows)
                                        - Cardinality(InvalidEmailRows \ DuplicateRows)

\* an invalid-email row that duplicates an earlier row, next to a row kept
C19_Witness ==
    /\ Transformed
    /\ InvalidEmailRows \cap DuplicateRows # {}
    /\ InvalidEmailRows \ DuplicateRows # {}
    /\ Len(OutRows) > 0

\* the GPA the claim gives input cell g, and the number of GPA errors
ExpectedGpa(g) ==
    IF pd_isna(g) THEN CellNaN
    ELSE IF float(g) = ValueError THEN CellNaN
    ELSE IF float(g)[2] > GpaMax THEN Float(GpaMax)
    ELSE IF float(g)[2] < GpaMin THEN Float(GpaMin)
    ELSE float(g)
ExpectedGpaErrors(g) ==
    IF pd_isna(g) THEN 0
    ELSE IF float(g) = ValueError THEN 1
    ELSE IF float(g)[2] > GpaMax \/ float(g)[2] < GpaMin THEN 1
    ELSE 0

\* C20: per row, a GPA in [0.0, 4.0] is kept with no error, one above 4.0
\* becomes 4.0 and one below 0.0 becomes 0.0 with exactly one GPA error for the
\* row, an unparseable one becomes absent with exactly one error, an absent one
\* stays absent with no error; every GPA in the output is absent or in [0.0, 4.0].
C20_GpaClamped ==
    (transformer.called /\ "gpa" \in raw.columns) =>
        /\ \A i \in 1..Len(raw.rows) :
              /\ Cardinality(ReportEntries(raw.rows[i].idx, "gpa"))
                    = ExpectedGpaErrors(raw.rows[i].gpa)
              /\ InOutput(raw.rows[i].idx) =>
                    OutRow(raw.rows[i].idx).gpa = ExpectedGpa(raw.rows[i].gpa)
        /\ \A k \in 1..Len(OutRows) :
              \/ OutRows[k].gpa = CellNaN
              \/ /\ IsFloat(OutRows[k].gpa)
                 /\ GpaMin <= OutRows[k].gpa[2] /\ OutRows[k].gpa[2] <= GpaMax

\* a GPA of 5.0 stored as 4.0 with its one error, and a row of the same table
\* whose unparseable GPA is reported
C20_Witness ==
    /\ Transformed
    /\ \E k \in 1..Len(OutRows) :
          /\ raw.rows[OutRows[k].idx + 1].gpa = Gpa50
          /\ OutRows[k].gpa = Float(GpaMax)
          /\ Cardinality(ReportEntries(OutRows[k].idx, "gpa")) = 1
    /\ \E i \in 1..Len(raw.rows) :
          /\ raw.rows[i].gpa = GpaAbc
          /\ Cardinality(ReportEntries(raw.rows[i].idx, "gpa")) = 1

---------------------------------------------------------------------------
(* SpecValidate: transform_students applied to a table that also has the   *)
(* gender, graduation_year and date_of_birth columns, with texts, numbers  *)
(* and empty cells in them                                                 *)

MaxWide == 2         \* rows of the raw table

TextMale == <<"M", "a", "l", "e">>
TextMaleLower == <<"m", "a", "l", "e">>
TextMalePadded == <<" ", "M", "a", "l", "e", " ">>
TextUndisclosed == <<"P", "r", "e", "f", "e", "r", " ", "n", "o", "t", " ", "t", "o", " ", "s", "a", "y">>
TextXyz == <<"x", "y", "z">>
TextCsLower == <<"c", "s">>
Text2024 == <<"2", "0", "2", "4">>
TextBirth == <<"2", "0", "0", "0", "-", "0", "1", "-", "0", "2">>
TextFeb30 == <<"2", "0", "0", "0", "-", "0", "2", "-", "3", "0">>
TextJunk == <<"j", "u", "n", "k">>

WideColumns == AllColumns \cup {"gender", "graduation_year", "date_of_birth"}

WideRow(email, student_code, gpa, department_code, gender, graduation_year, date_of_birth) ==
    [email |-> email, student_code |-> student_code, gpa |-> gpa,
     department_code |-> department_code, gender |-> gender,
     graduation_year |-> graduation_year, date_of_birth |-> date_of_birth]

\* Rows of a source: a plain row under each key pair, then one cell at a time
\* replaced by each kind of value the column can hold in a CSV or JSON source
WideRows ==
    {WideRow(TextA, TextS1, Gpa35, TextCS, TextMale, Text2024, TextBirth),
     WideRow(TextB, TextS2, Gpa35, TextCS, TextMale, Text2024, TextBirth),
     WideRow(TextA, TextS2, Gpa35, TextCS, TextMale, Text2024, TextBirth),
     WideRow(TextBad, TextS1, Gpa35, TextCS, TextMale, Text2024, TextBirth),
     WideRow(Float(35), TextS2, Gpa35, TextCS, TextMale, Text2024, TextBirth),
     WideRow(TextB, CellNaN, Gpa35, TextCS, TextMale, Text2024, TextBirth),
     WideRow(TextA, CellNaN, Gpa35, TextCS, TextMale, Text2024, TextBirth)}
    \cup {WideRow(TextB, TextS2, Gpa35, TextCS, g, Text2024, TextBirth) :
             g \in {TextMaleLower, TextMalePadded, TextUndisclosed, TextXyz, CellNaN, Float(10)}}
    \cup {WideRow(TextB, TextS2, Gpa35, d, TextMale, Text2024, TextBirth) :
             d \in {TextZZ, TextCsLower, CellNaN, Float(10)}}
    \cup {WideRow(TextA, TextS1, Gpa35, TextCS, TextMale, y, TextBirth) :
             y \in {Float(20240), Float(20245), GpaAbc, CellNaN}}
    \cup {WideRow(TextA, TextS1, Gpa35, TextCS, TextMale, Text2024, b) :
             b \in {TextFeb30, TextJunk, CellNaN, Float(10)}}
    \cup {WideRow(TextA, TextS1, g, TextCS, TextMale, Text2024, TextBirth) :
             g \in {Gpa50, GpaAbc, Float(50)}}

WideColumnSets == {WideColumns, WideColumns \ {"gender"}, WideColumns \ {"email"}}

WideTables ==
    {Frame(columns, cells) :
        columns \in WideColumnSets, cells \in UNION {[1..n -> WideRows] : n \in 0..MaxWide}}

InitValidate ==
    /\ raw \in WideTables
    /\ transformer = FreshTransformer
    /\ runs = NoRuns
    /\ pipeline = "unset"
    /\ students = {} /\ view = {} /\ aborted = FALSE /\ txnNo = 1 /\ ended = <<>>
    /\ nextId = 1 /\ foreign = 0 /\ lastCall = NoCall /\ ncalls = 0
    /\ IdleBatch
    /\ IdleCatalog

SpecValidate == InitValidate /\ [][NextTransform]_vars

---------------------------------------------------------------------------
(* Properties of transform_students on the wide table (SpecValidate) *)

ValidEmail(i) == "email" \in raw.columns /\ validate_email(NormalizedEmail(i))
FirstOccurrence(i) == \A j \in 1..(i - 1) : ~ShareKey(i, j)

\* C21: soft-fail checks never remove a row: an input row whose e-mail is
\* valid and which shares no e-mail and no student code with an earlier row is
\* in the output of transform_students, whatever its GPA, department code,
\* gender, graduation year and date of birth are.
C21_SoftFailNeverRemoves ==
    transformer.called =>
        \A i \in 1..Len(raw.rows) :
            (ValidEmail(i) /\ FirstOccurrence(i)) =>
                (~transformer.raised /\ InOutput(raw.rows[i].idx))

\* what the claim gives a categorical cell c of a column with the enumeration
\* valid: the number of errors for the row
ExpectedCategoryErrors(c, valid) ==
    IF pd_isna(c) \/ c \in valid THEN 0 ELSE 1

Categorical(i, column, valid) ==
    column \in raw.columns =>
        /\ Cardinality(ReportEntries(raw.rows[i].idx, column))
              = ExpectedCategoryErrors(raw.rows[i][column], valid)
        /\ (InOutput(raw.rows[i].idx) /\ ~pd_isna(raw.rows[i][column])) =>
              OutRow(raw.rows[i].idx)[column] = raw.rows[i][column]

\* C22: a gender among the four enumerated values and a department code among
\* the eight enumerated codes produce no validation error and reach the output
\* unmodified; any other gender or department code that is present produces
\* exactly one validation error for its row and is retained unmodified.
C22_CategoricalRetained ==
    transformer.called =>
        \A i \in 1..Len(raw.rows) :
            /\ Categorical(i, "gender", VALID_GENDERS)
            /\ Categorical(i, "department_code", VALID_DEPARTMENTS)

\* C23: transform_students never raises for a data-quality problem: on a table
\* that has the email column it returns, whatever text, number or empty cell
\* each column holds.
C23_NeverRaisesOnData ==
    (transformer.called /\ "email" \in raw.columns) => ~transformer.raised

---------------------------------------------------------------------------
(* ETLPipeline (src/etl/etl.py): run(), run_extract_transform() and main() *)
(*                                                                         *)
(* The variable raw is the table the source holds, transformer is the      *)
(* pipeline's DataTransformer, and the load phase runs the loop of         *)
(* load_students_batch on the store of the loader model.  A field that     *)
(* Python leaves None is NoTable for a table, NoStats for load statistics  *)
(* and Unset for a number.                                                 *)

MaxSource == 3       \* rows the source holds

Unset == -1
DefaultBatchSize == 100
NoStats == NewStats(0)

SourceTypes == {"csv", "json", "url", "google_sheet"}

NewPipelineStats ==
    [start_time |-> Unset, end_time |-> Unset, duration |-> Unset,
     extract_count |-> 0, transform_count |-> 0, load_stats |-> NoStats,
     validation_errors |-> Unset, errors |-> <<>>]

\* ETLPipeline.__init__, with what the model keeps beside the object: who calls
\* (main() or a caller of the class), which method, whether the source can be
\* read, the clock, and the history of the run (phases entered, phases that
\* raised, the store before the run, connections opened, which call of run()
\* on the object this is)
ETLPipeline(driver, method, source_type, source_ok, connection_string, store) ==
    [driver |-> driver, method |-> method, source_type |-> source_type,
     source_ok |-> source_ok, connection_string |-> connection_string,
     pc |-> "start", raw_data |-> NoTable, transformed_data |-> NoTable,
     load_stats |-> NoStats, pipeline_stats |-> NewPipelineStats,
     loader |-> FALSE, connections |-> 0, clock |-> 0,
     phases |-> <<>>, raised |-> <<>>, store0 |-> store, exit |-> Unset,
     run_no |-> 1]

\* a phase is entered: the clock moves on
Enter(p, phase) == [p EXCEPT !.phases = Append(@, phase), !.clock = @ + 1]

Failed_Silent(p, phase, error) ==
    [p EXCEPT !.raised = Append(@, phase)]

\* except Exception as e: self.pipeline_stats['errors'].append({...}); return False
Failed(p, phase, error) ==
    [p EXCEPT !.pipeline_stats.errors = Append(@, [phase |-> phase, error |-> error]),
              !.raised = Append(@, phase)]

AfterExtract_Always(extract_success) == "transform"

\* run() / run_extract_transform(): what follows extract()
AfterExtract(extract_success) == IF extract_success THEN "transform" ELSE "finish"

AfterTransform_AlwaysLoad(method, transform_success) ==
    IF transform_success THEN "load" ELSE "finish"

\* what follows transform(): load() in run(), nothing in run_extract_transform()
AfterTransform(method, transform_success) ==
    IF method = "run" /\ transform_success THEN "load" ELSE "finish"

\* ETLPipeline.extract on the table the source holds
extract(p, source) ==
    LET q == Enter(p, "extract")
    IN  IF q.source_type \notin SourceTypes
        THEN [Failed(q, "extract", "Unknown source type") EXCEPT !.pc = AfterExtract(FALSE)]
        ELSE IF ~q.source_ok
        THEN [Failed(q, "extract", "FileNotFoundError") EXCEPT !.pc = AfterExtract(FALSE)]
        ELSE [q EXCEPT !.raw_data = source,
                       !.pipeline_stats.extract_count = Len(source.rows),
                       !.pc = AfterExtract(TRUE)]

transform_NoCount(p, res) ==
    LET q == Enter(p, "transform")
    IN  IF q.raw_data = NoTable
        THEN [q EXCEPT !.pc = AfterTransform(q.method, FALSE)]
        ELSE IF res.raised
        THEN [Failed(q, "transform", res.error) EXCEPT !.pc = AfterTransform(q.method, FALSE)]
        ELSE [q EXCEPT !.transformed_data = res.value,
                       !.pipeline_stats.validation_errors = Len(res.validation_errors),
                       !.pc = AfterTransform(q.method, TRUE)]

\* ETLPipeline.transform, given what transform_students did (res)
transform(p, res) ==
    LET q == Enter(p, "transform")
    IN  IF q.raw_data = NoTable
        THEN [q EXCEPT !.pc = AfterTransform(q.method, FALSE)]
        ELSE IF res.raised
        THEN [Failed(q, "transform", res.error) EXCEPT !.pc = AfterTransform(q.method, FALSE)]
        ELSE [q EXCEPT !.transformed_data = res.value,
                       !.pipeline_stats.transform_count = Len(res.value.rows),
                       !.pipeline_stats.validation_errors = Len(res.validation_errors),
                       !.pc = AfterTransform(q.method, TRUE)]

LoadReturned_FailureAsError(p, st) ==
    [(IF st.failed > 0 THEN Failed(p, "load", "records failed") ELSE p)
        EXCEPT !.load_stats = st, !.pipeline_stats.load_stats = st, !.pc = "finish"]

\* load(): load_students_batch returned st
LoadReturned(p, st) ==
    [p EXCEPT !.load_stats = st, !.pipeline_stats.load_stats = st, !.pc = "finish"]

\* run() / run_extract_transform(): end_time, duration, return self.pipeline_stats
Finish(p) ==
    [p EXCEPT !.pipeline_stats.end_time = p.clock,
              !.pipeline_stats.duration = p.clock - p.pipeline_stats.start_time,
              !.pc = "returned"]

ExitStatus_LoadFailed(report) ==
    IF report.errors = <<>> /\ report.load_stats.failed = 0 THEN 0 ELSE 1

\* main(): return 0 if not stats['errors'] else 1
ExitStatus(report) == IF report.errors = <<>> THEN 0 ELSE 1

\* the text of a cell
RECURSIVE Join(_)
Join(chars) == IF chars = <<>> THEN "" ELSE Head(chars) \o Join(Tail(chars))

\* a cell as psycopg2 gets it from row.to_dict(): None, float nan, the repr of a
\* float, or the string
Adapt(c) ==
    IF c = CellNone THEN None
    ELSE IF c = CellNaN THEN NaN
    ELSE IF IsFloat(c) THEN ToString(c[2] \div 10) \o "." \o ToString(c[2] % 10)
    ELSE Join(c)

\* student_data = row.to_dict(), read with data.get(key)
to_dict(row) ==
    [email |-> Adapt(Get(row, "email", CellNone)),
     student_code |-> Adapt(Get(row, "student_code", CellNone)),
     first_name |-> Adapt(Get(row, "first_name", CellNone)),
     gpa |-> Adapt(Get(row, "gpa", CellNone)),
     department_code |-> Adapt(Get(row, "department_code", CellNone))]

---------------------------------------------------------------------------
(* SpecPipeline: one pipeline run, from main() or from a caller of the class *)

\* Rows of the source: two rows with one e-mail once normalised, a department
\* code outside the enumeration, an e-mail that is no address, a GPA of 5.0,
\* and a second student with nothing wrong.
SourceRows ==
    {RawRow(TextA, TextS1, Gpa35, TextCS), RawRow(TextA2, TextS2, Gpa35, TextCS),
     RawRow(TextB, TextS2, Gpa35, TextZZ), RawRow(TextBad, TextS1, Gpa35, TextCS),
     RawRow(TextA, TextS1, Gpa50, TextCS), RawRow(TextB, TextS2, Gpa35, TextCS)}

SourceTables ==
    {Frame(columns, cells) :
        columns \in {AllColumns, AllColumns \ {"email"}},
        cells \in UNION {[1..n -> SourceRows] : n \in 0..MaxSource}}

\* main() builds the pipeline from the command line, where --type is one of
\* SourceTypes; a caller of the class may pass any source type
Pipelines(store) ==
    {ETLPipeline(driver, method, source_type, source_ok, connection_string, store) :
        driver \in {"main", "caller"}, method \in {"run", "run_extract_transform"},
        source_type \in {"csv", "xml"}, source_ok \in BOOLEAN,
        connection_string \in BOOLEAN}

InitPipeline ==
    /\ students \in {{}, {SeedA}}
    /\ view = students
    /\ aborted = FALSE
    /\ txnNo = 1
    /\ ended = <<>>
    /\ nextId = 3
    /\ foreign = 0
    /\ lastCall = NoCall
    /\ ncalls = 0
    /\ IdleBatch
    /\ IdleCatalog
    /\ transformer = FreshTransformer
    /\ runs = NoRuns
    /\ pipeline \in Pipelines(students)
    /\ pipeline.driver = "main" => pipeline.source_type \in SourceTypes
    /\ IF pipeline.source_ok /\ pipeline.source_type \in SourceTypes
       THEN raw \in SourceTables
       ELSE raw = NoTable

loaderVars == <<studentVars, lastCall, ncalls, batchVars, catalogVars, runs>>

\* self.pipeline_stats['start_time'] = datetime.now()
run_Start ==
    /\ pipeline.pc = "start"
    /\ pipeline' = [pipeline EXCEPT !.pipeline_stats.start_time = pipeline.clock,
                                    !.pc = "extract"]
    /\ UNCHANGED <<raw, transformer, loaderVars>>

\* extract_success = self.extract()
run_Extract ==
    /\ pipeline.pc = "extract"
    /\ pipeline' = extract(pipeline, raw)
    /\ UNCHANGED <<raw, transformer, loaderVars>>

\* transform_success = self.transform()
run_Transform ==
    /\ pipeline.pc = "transform"
    /\ \E res \in {IF pipeline.raw_data = NoTable THEN transformer
                   ELSE transform_students(pipeline.raw_data)} :
         /\ transformer' = [called |-> pipeline.raw_data # NoTable, raised |-> res.raised,
                            error |-> res.error, value |-> res.value,
                            validation_errors |-> res.validation_errors,
                            transformation_log |-> res.transformation_log]
         /\ pipeline' = transform(pipeline, res)
    /\ UNCHANGED <<raw, loaderVars>>

\* load(): up to the call of load_students_batch.  Nothing to load returns
\* False; DatabaseLoader() raises without a connection string; a failed
\* test_connection raises ConnectionError; else the batch loop is entered.
load_Enter ==
    /\ pipeline.pc = "load"
    /\ LET p == Enter(pipeline, "load")
           n == Len(p.transformed_data.rows)
       IN  IF p.transformed_data = NoTable \/ n = 0
           THEN /\ pipeline' = [p EXCEPT !.pc = "finish"]
                /\ UNCHANGED <<raw, transformer, loaderVars>>
           ELSE IF ~p.connection_string
           THEN /\ pipeline' = [Failed(p, "load", "Database connection string not provided")
                                   EXCEPT !.pc = "finish"]
                /\ UNCHANGED <<raw, transformer, loaderVars>>
           ELSE \E connected \in BOOLEAN :
                  IF ~connected
                  THEN /\ pipeline' = [Failed([p EXCEPT !.loader = TRUE, !.connections = @ + 1],
                                              "load", "Database connection test failed")
                                          EXCEPT !.pc = "finish"]
                       /\ UNCHANGED <<raw, transformer, loaderVars>>
                  ELSE /\ pipeline' = [p EXCEPT !.loader = TRUE, !.connections = @ + 2,
                                                !.pc = "loading"]
                       /\ pc' = "loop"
                       /\ total' = n
                       /\ batch_size' = DefaultBatchSize
                       /\ stats' = NewStats(n)
                       /\ df' = <<>>
                       /\ log' = <<>>
                       /\ view' = students
                       /\ aborted' = FALSE
                       /\ UNCHANGED <<students, txnNo, ended, nextId, foreign, lastCall, ncalls>>
                       /\ UNCHANGED <<raw, transformer, catalogVars, runs>>

\* load_students_batch: one iteration over the transformed table
load_Row ==
    /\ pipeline.pc = "loading"
    /\ pc = "loop"
    /\ Len(df) < total
    /\ LET row == pipeline.transformed_data.rows[Len(df) + 1]
       IN  \E race \in BOOLEAN : ProcessRow(row.idx, to_dict(row), race)
    /\ UNCHANGED <<pc, total, batch_size, lastCall, ncalls>>
    /\ UNCHANGED catalogVars
    /\ UNCHANGED etlVars

LoseConnection_Commits ==
    /\ students' = CommitRows(students, Cursor(view, aborted, nextId, txnNo))
    /\ view' = students'
    /\ aborted' = FALSE
    /\ txnNo' = txnNo + 1
    /\ ended' = Append(ended, EndOf(aborted))

\* the server ends the open transaction of a connection that is lost: what it
\* wrote since the last commit is gone, what was committed stays
LoseConnection ==
    /\ students' = students
    /\ view' = students
    /\ aborted' = FALSE
    /\ txnNo' = txnNo + 1
    /\ ended' = Append(ended, "rollback")

\* the connection is lost during the load: the exception leaves
\* load_students_batch, the open transaction is gone, load() records the error
load_ConnectionLost ==
    /\ pipeline.pc = "loading"
    /\ pc = "loop"
    /\ LoseConnection
    /\ pc' = "raised"
    /\ pipeline' = [Failed(pipeline, "load", "OperationalError") EXCEPT !.pc = "finish"]
    /\ UNCHANGED <<nextId, foreign, lastCall, ncalls>>
    /\ UNCHANGED <<df, total, batch_size, stats, log>>
    /\ UNCHANGED <<raw, transformer, catalogVars, runs>>

\* load_students_batch returns stats; load() stores them
load_Return ==
    /\ pipeline.pc = "loading"
    /\ pc = "loop"
    /\ Len(df) = total
    /\ LeaveConnection
    /\ pc' = "done"
    /\ pipeline' = LoadReturned(pipeline, stats)
    /\ UNCHANGED <<nextId, foreign, lastCall, ncalls, df, total, batch_size, stats, log>>
    /\ UNCHANGED <<raw, transformer, catalogVars, runs>>

\* end_time and duration are set and the report is returned
run_Finish ==
    /\ pipeline.pc = "finish"
    /\ pipeline' = Finish(pipeline)
    /\ UNCHANGED <<raw, transformer, loaderVars>>

\* main(): the summary is printed and the exit status returned
main_Return ==
    /\ pipeline.pc = "returned"
    /\ pipeline.driver = "main"
    /\ pipeline' = [pipeline EXCEPT !.exit = ExitStatus(pipeline.pipeline_stats),
                                    !.pc = "exited"]
    /\ UNCHANGED <<raw, transformer, loaderVars>>

NextPipeline ==
    \/ run_Start \/ run_Extract \/ run_Transform
    \/ load_Enter \/ load_Row \/ load_ConnectionLost \/ load_Return
    \/ run_Finish \/ main_Return

SpecPipeline == InitPipeline /\ [][NextPipeline]_vars

---------------------------------------------------------------------------
(* SpecRerun: a caller of the class calls run() again on the same object *)

MaxRuns == 2         \* calls of run() on one ETLPipeline object
MaxRerun == 2        \* rows the source holds

InitRerun ==
    /\ InitPipeline
    /\ pipeline.driver = "caller"
    /\ pipeline.method = "run"
    /\ Len(raw.rows) <= MaxRerun

\* stats = pipeline.run() once more: the object is as the earlier call left it
\* (pipeline_stats, raw_data, transformed_data, load_stats, loader), the
\* history starts anew, and the source may have become unreadable meanwhile
run_Again ==
    /\ pipeline.pc = "returned"
    /\ pipeline.driver = "caller"
    /\ pipeline.method = "run"
    /\ pipeline.run_no < MaxRuns
    /\ \E source_ok \in {pipeline.source_ok, FALSE} :
         pipeline' = [pipeline EXCEPT !.pc = "start", !.run_no = @ + 1,
                                      !.source_ok = source_ok,
                                      !.phases = <<>>, !.raised = <<>>,
                                      !.connections = 0, !.store0 = students]
    /\ pc' = "idle"
    /\ UNCHANGED <<studentVars, lastCall, ncalls, df, total, batch_size, stats, log>>
    /\ UNCHANGED <<raw, transformer, catalogVars, runs>>

NextRerun ==
    \/ run_Start \/ run_Extract \/ run_Transform
    \/ load_Enter \/ load_Row \/ load_ConnectionLost \/ load_Return
    \/ run_Finish \/ run_Again

SpecRerun == InitRerun /\ [][NextRerun]_vars

---------------------------------------------------------------------------
(* SpecLoadFailure: a run over a table longer than one batch of             *)
(* load_students_batch, so that a commit at a batch boundary falls inside   *)
(* the load                                                                 *)

MaxTail == 2         \* rows of the source beyond the first full batch

TextAtX == <<"@", "x", ".", "c", "o", "m">>

\* the i-th student of a long source: i@x.com with student code Si
NumberedRow(i) == RawRow(NaturalText(i) \o TextAtX, <<"S">> \o NaturalText(i), Gpa35, TextCS)

LongTable(n) == Frame(AllColumns, AsSeq([i \in 1..n |-> NumberedRow(i)]))

\* the first student of the long source as an earlier load stored it
SeedFirst == StudentRow(1, to_dict(LongTable(1).rows[1]), "d1", 0)

InitLoadFailure ==
    /\ students \in {{}, {SeedFirst}}
    /\ view = students
    /\ aborted = FALSE
    /\ txnNo = 1
    /\ ended = <<>>
    /\ nextId = 3
    /\ foreign = MaxForeign       \* no other writer is at work during this load
    /\ lastCall = NoCall
    /\ ncalls = 0
    /\ IdleBatch
    /\ IdleCatalog
    /\ transformer = FreshTransformer
    /\ runs = NoRuns
    /\ \E driver \in {"main", "caller"} :
          pipeline = ETLPipeline(driver, "run", "csv", TRUE, TRUE, students)
    /\ raw \in {LongTable(DefaultBatchSize + t) : t \in 0..MaxTail}

SpecLoadFailure == InitLoadFailure /\ [][NextPipeline]_vars

---------------------------------------------------------------------------
(* Properties of the pipeline (SpecPipeline) *)

Report == pipeline.pipeline_stats
RunReturned == pipeline.pc \in {"returned", "exited"}
Entered(phase) == \E i \in 1..Len(pipeline.phases) : pipeline.phases[i] = phase
Raised(phase) == \E i \in 1..Len(pipeline.raised) : pipeline.raised[i] = phase
IsPrefix(s, t) == Len(s) <= Len(t) /\ \A i \in 1..Len(s) : s[i] = t[i]
StoreUntouched ==
    /\ students = pipeline.store0 /\ view = pipeline.store0
    /\ pipeline.connections = 0 /\ ~pipeline.loader

\* C11: in run() the phases are entered in the order extract, transform, load,
\* each at most once; transform only after extract produced a table without
\* raising, load only after transform completed without raising; when extract
\* fails neither transform nor load is entered and the store is not touched.
C11_PhasesInOrder ==
    /\ IsPrefix(pipeline.phases, <<"extract", "transform", "load">>)
    /\ Entered("transform") => (pipeline.raw_data # NoTable /\ ~Raised("extract"))
    /\ Entered("load") =>
          /\ pipeline.method = "run"
          /\ transformer.called /\ ~transformer.raised /\ ~Raised("transform")
    /\ Raised("extract") => (pipeline.phases = <<"extract">> /\ StoreUntouched)

\* a run that went through the three phases and wrote to the store
C11_Witness ==
    /\ pipeline.method = "run"
    /\ RunReturned
    /\ pipeline.phases = <<"extract", "transform", "load">>
    /\ students # pipeline.store0

\* C12: a run whose load phase returned statistics with failed > 0 ends like a
\* run without failed records: the report carries the statistics whole, its
\* errors list is empty, and main() exits with status 0.
C12_FailedRecordsStillCompleted ==
    (RunReturned /\ pipeline.load_stats.failed > 0) =>
        /\ Report.load_stats = stats
        /\ Report.load_stats = pipeline.load_stats
        /\ Report.load_stats.total
              = Report.load_stats.inserted + Report.load_stats.updated + Report.load_stats.failed
        /\ Len(Report.load_stats.errors) = Report.load_stats.failed
        /\ Report.errors = <<>>
        /\ pipeline.pc = "exited" => pipeline.exit = 0

\* main() has exited after a load in which a record failed
C12_Witness ==
    /\ pipeline.pc = "exited"
    /\ pipeline.load_stats.failed > 0
    /\ pipeline.load_stats.inserted + pipeline.load_stats.updated > 0

\* C13: an exception raised inside extract, transform or load is not
\* propagated by run(): the run goes on to return the report with start time,
\* end time and duration set, and the errors list holds exactly one entry,
\* naming the phase that raised.
C13_PhaseExceptionsCaptured ==
    /\ pipeline.raised # <<>> => pipeline.pc \in {"finish", "returned", "exited"}
    /\ RunReturned =>
          /\ Report.start_time # Unset /\ Report.end_time # Unset
          /\ Report.duration = Report.end_time - Report.start_time
          /\ Report.duration >= 0
          /\ Len(pipeline.raised) <= 1
          /\ pipeline.raised # <<>> =>
                /\ Len(Report.errors) = 1
                /\ Report.errors[1].phase = pipeline.raised[1]

\* the connection was lost after a record had been processed, and run() returned
C13_Witness ==
    /\ RunReturned
    /\ pipeline.raised = <<"load">>
    /\ pc = "raised"
    /\ Len(df) > 0

\* C14: run_extract_transform never enters the load phase: whatever extract and
\* transform did, no loader is built, no connection opened, nothing written to
\* the store, and the report's load_stats is empty.
C14_DryRunNeverLoads ==
    pipeline.method = "run_extract_transform" =>
        /\ ~Entered("load")
        /\ StoreUntouched
        /\ pc = "idle"
        /\ Report.load_stats = NoStats /\ pipeline.load_stats = NoStats

\* a dry run that returned with a transformed table it could have loaded
C14_Witness ==
    /\ pipeline.method = "run_extract_transform"
    /\ RunReturned
    /\ transformer.called /\ ~transformer.raised
    /\ Len(pipeline.transformed_data.rows) > 0

\* C15: the exit status of main() is non-zero iff the errors list of the
\* report is non-empty, after run() and after run_extract_transform().
C15_ExitStatusIffErrors ==
    pipeline.pc = "exited" => (pipeline.exit # 0 <=> Report.errors # <<>>)

\* main() exits non-zero after a dry run whose transform raised
C15_Witness ==
    /\ pipeline.pc = "exited"
    /\ pipeline.method = "run_extract_transform"
    /\ pipeline.exit # 0
    /\ Raised("transform")

\* C16: the report returned by run() enumerates every error of the run: each
\* validation error of the transform with its row index, column and reason,
\* each per-record load failure with its row, key and reason, each phase error
\* with its phase.
C16_ReportEnumeratesEveryError ==
    (RunReturned /\ pipeline.method = "run") =>
        /\ \A k \in 1..Len(transformer.validation_errors) :
              LET e == transformer.validation_errors[k]
                  Lists == <<Report.errors, Report.load_stats.errors>>
              IN  \E l \in 1..2 : \E i \in 1..Len(Lists[l]) :
                      /\ {"row", "column", "error"} \subseteq DOMAIN Lists[l][i]
                      /\ Lists[l][i].row = e.row
                      /\ Lists[l][i].column = e.column
                      /\ Lists[l][i].error = e.error
        /\ \A i \in 1..Len(log) :
              ~log[i].ok =>
                  \E j \in 1..Len(Report.load_stats.errors) :
                      /\ Report.load_stats.errors[j].row = log[i].idx
                      /\ Report.load_stats.errors[j].email = log[i].email
                      /\ Report.load_stats.errors[j].error = log[i].msg
        /\ \A i \in 1..Len(pipeline.raised) :
              \E j \in 1..Len(Report.errors) : Report.errors[j].phase = pipeline.raised[i]

---------------------------------------------------------------------------
(* Properties of a second run on the same object (SpecRerun) *)

\* what the phases of this call did, from its history
ExtractSucceeded == Entered("extract") /\ ~Raised("extract")
TransformSucceeded == Entered("transform") /\ ~Raised("transform") /\ transformer.called
LoadSucceeded == Entered("load") /\ pc = "done"

\* the report holds what this call of run() did and nothing else
OwnReport ==
    /\ Len(Report.errors) = Len(pipeline.raised)
    /\ \A i \in 1..Len(Report.errors) : Report.errors[i].phase = pipeline.raised[i]
    /\ Report.extract_count = (IF ExtractSucceeded THEN Len(raw.rows) ELSE 0)
    /\ Report.transform_count
          = (IF TransformSucceeded THEN Len(transformer.value.rows) ELSE 0)
    /\ Report.load_stats = (IF LoadSucceeded THEN stats ELSE NoStats)

\* C24: when run() is called a second time on the same ETLPipeline object, the
\* report it returns holds only the second run's errors, counts and load
\* statistics; nothing is carried over from the first run.
C24_SecondRunReportIsItsOwn ==
    (pipeline.pc = "returned" /\ pipeline.run_no = 2) => OwnReport

\* the report of a first run holds what that run did
FirstRunReportIsItsOwn ==
    (pipeline.pc = "returned" /\ pipeline.run_no = 1) => OwnReport

---------------------------------------------------------------------------
(* Properties of a load that loses its connection (SpecLoadFailure) *)

\* the record at position i of the load was written in a transaction that a
\* commit ended
InCommittedBatch(i) == log[i].txn <= Len(ended) /\ ended[log[i].txn] = "commit"

ConnectionFailed == pc = "raised" /\ pipeline.pc \in {"finish", "returned", "exited"}

\* C25: if the connection fails during load_students_batch after k batches
\* were committed, the load call fails as a whole and the report has exactly
\* one error, of the load phase, and no load statistics; every record written
\* in a committed batch is stored as it was written, and no record processed
\* after the last commit is stored: its insert is not in the table and its
\* update has left the row as it was before the run.
C25_ConnectionFailureKeepsCommitted ==
    ConnectionFailed =>
        /\ Len(Report.errors) = 1 /\ Report.errors[1].phase = "load"
        /\ Report.load_stats = NoStats
        /\ Cardinality({i \in 1..Len(log) : InCommittedBatch(i)})
              >= Len(SelectSeq(ended, LAMBDA e : e = "commit"))
        /\ \A i \in 1..Len(log) :
              log[i].ok =>
                 IF InCommittedBatch(i)
                 THEN \E x \in students :
                         /\ x.student_id = log[i].id
                         /\ x.email = log[i].email
                         /\ x.student_code = df[i].rec.student_code
                         /\ x.updated_at = log[i].txn
                 ELSE /\ log[i].msg = "inserted" =>
                           ~\E x \in students :
                               x.student_id = log[i].id \/ x.email = log[i].email
                      /\ log[i].msg = "updated" =>
                           \E x \in students \cap pipeline.store0 : x.student_id = log[i].id

\* the connection failed after one batch was committed and further records
\* were written
C25_Witness ==
    /\ ConnectionFailed
    /\ \E i \in 1..Len(log) : log[i].ok /\ InCommittedBatch(i) /\ log[i].msg = "inserted"
    /\ \E i \in 1..Len(log) : log[i].ok /\ ~InCommittedBatch(i)

---------------------------------------------------------------------------
(* The end-to-end scenario (SpecPipeline) *)

\* rows i and j of the source have one e-mail once normalised
SameEmail(i, j) == NormalizedEmail(i) = NormalizedEmail(j)

\* an input table of three students with valid e-mails and known departments,
\* of which exactly two share an e-mail, the two that remain having different
\* student codes; a store with none of them; a database that stays reachable
\* and no other writer
ThreeStudentsTwoShareEmail ==
    /\ raw.columns = AllColumns
    /\ Len(raw.rows) = 3
    /\ \A i \in 1..3 : ValidEmail(i) /\ raw.rows[i].department_code \in VALID_DEPARTMENTS
    /\ Cardinality({NormalizedEmail(i) : i \in 1..3}) = 2
    /\ Cardinality({StudentCode(i) : i \in {i \in 1..3 : FirstOfEmail(i)}}) = 2
    /\ pipeline.store0 = {}
    /\ pipeline.method = "run"
    /\ ~Raised("load")
    /\ foreign = 0

\* C26: run() on an input table of 3 students of which two share an e-mail,
\* against a store that holds none of them, returns a report with
\* extract_count 3, transform_count 2, load_stats inserted 2, updated 0,
\* failed 0 and no errors, and the store then holds exactly the two surviving
\* students: the first row of each e-mail.
C26_EndToEndScenario ==
    (RunReturned /\ ThreeStudentsTwoShareEmail) =>
        /\ Report.extract_count = 3
        /\ Report.transform_count = 2
        /\ Report.load_stats.total = 2
        /\ Report.load_stats.inserted = 2
        /\ Report.load_stats.updated = 0
        /\ Report.load_stats.failed = 0
        /\ Report.load_stats.errors = <<>>
        /\ Report.errors = <<>>
        /\ Cardinality(students) = 2
        /\ {[email |-> x.email, student_code |-> x.student_code] : x \in students}
              = {[email |-> Adapt(NormalizedEmail(i)), student_code |-> Adapt(StudentCode(i))] :
                    i \in {i \in 1..3 : FirstOfEmail(i)}}

\* the scenario has run: the second row repeats the e-mail of the first in
\* another spelling, and two students are stored
C26_Witness ==
    /\ RunReturned
    /\ ThreeStudentsTwoShareEmail
    /\ raw.rows[1].email # raw.rows[2].email /\ SameEmail(1, 2)
    /\ Cardinality(students) = 2

---------------------------------------------------------------------------
(* Uniqueness of the keys under sequential upserts (SpecUpsert) *)

\* no two rows share an id, an e-mail or a student code that is present
KeysUnique(rows) ==
    \A x, y \in rows :
        x # y =>
            /\ x.student_id # y.student_id
            /\ x.email # y.email
            /\ (x.student_code # None => x.student_code # y.student_code)

\* C27: from a store with unique e-mails and student codes, after any sequence
\* of upsert_student calls issued one after the other on one connection, no
\* two student rows share an e-mail or a present student code, and no call
\* fails with a uniqueness violation: an insert happens only when neither key
\* of the record is stored, and an update leaves the e-mail and the student
\* code of every row as they were.
C27_SequentialUpsertsKeepKeysUnique ==
    /\ KeysUnique(view)
    /\ KeysUnique(students)
    /\ lastCall.op = "upsert_student" =>
          /\ lastCall.ok
          /\ lastCall.msg \in {"inserted", "updated"}
          /\ lastCall.msg = "inserted" =>
                /\ ~\E x \in lastCall.before :
                       \/ x.email = lastCall.rec.email
                       \/ /\ lastCall.rec.student_code # None
                          /\ x.student_code = lastCall.rec.student_code
                /\ Cardinality(view) = Cardinality(lastCall.before) + 1
          /\ lastCall.msg = "updated" =>
                /\ Cardinality(view) = Cardinality(lastCall.before)
                /\ \A x \in lastCall.before :
                       \E y \in view :
                           /\ y.student_id = x.student_id
                           /\ y.email = x.email
                           /\ y.student_code = x.student_code

\* a record with the e-mail of one stored row and the student code of another
\* was given to upsert_student, which updated one of the two
C27_Witness ==
    /\ lastCall.op = "upsert_student"
    /\ lastCall.msg = "updated"
    /\ \E x, y \in lastCall.before :
          /\ x # y
          /\ x.email = lastCall.rec.email
          /\ y.student_code = lastCall.rec.student_code
    /\ view # lastCall.before

---------------------------------------------------------------------------
(* The load phase after an empty transform (SpecPipeline) *)

\* C28: whenever extract and transform both succeed in run(), the load phase
\* is not skipped silently: the returned report carries load statistics or has
\* a load entry in errors, also when the cleaned table has no rows.
C28_LoadNeverSkippedSilently ==
    (RunReturned /\ pipeline.method = "run" /\ ExtractSucceeded /\ TransformSucceeded) =>
        \/ Report.load_stats # NoStats
        \/ \E i \in 1..Len(Report.errors) : Report.errors[i].phase = "load"

---------------------------------------------------------------------------
(* The final commit of load_students_batch (Spec) *)

\* C29: when load_students_batch returns normally, every record counted as
\* inserted or updated is committed in the store, the records processed after
\* the last batch boundary included.
C29_CountedRecordsCommitted ==
    pc = "done" =>
        /\ stats.inserted + stats.updated = Cardinality({i \in 1..Len(log) : log[i].ok})
        /\ \A i \in 1..Len(log) : log[i].ok => Durable(i)

---------------------------------------------------------------------------
(* SpecRace: two loads of load_students_batch at the same time, each on    *)
(* its own connection and in its own transaction (READ COMMITTED): a       *)
(* statement sees what is committed and what its own transaction wrote; an *)
(* INSERT or UPDATE that meets a row the other transaction wrote and has   *)
(* not yet ended waits for that transaction to end.                        *)

MaxRace == 2         \* records of each of the two loads

RaceIds == {1, 2}
Other(r) == 3 - r

\* the record both loads carry, and the records only one of them carries
SharedRecord ==
    [email |-> EmailPool[2], student_code |-> CodePool[2], first_name |-> "Ann",
     gpa |-> "3.5", department_code |-> "CS"]
OwnKey(r, k) == IF r = 1 THEN (IF k = 1 THEN 1 ELSE 3) ELSE 3 + k
OwnRecord(r, k) ==
    [email |-> EmailPool[OwnKey(r, k)], student_code |-> CodePool[OwnKey(r, k)],
     first_name |-> "Ann", gpa |-> "3.5", department_code |-> "CS"]

\* the tables a load may carry: the shared record at some position among its own
RaceTables(r) ==
    UNION {{AsSeq([i \in 1..n |-> IF i = at THEN SharedRecord
                                   ELSE OwnRecord(r, IF i < at THEN i ELSE i - 1)]) :
               at \in 1..n} : n \in 1..MaxRace}

\* a load at the start of load_students_batch: the connection is open, no
\* record is processed; written holds the rows its open transaction wrote
NewRun(table) ==
    [df |-> table, i |-> 1, pc |-> "select", existing |-> NoId, written |-> {},
     aborted |-> FALSE, stats |-> NewStats(Len(table)), log |-> <<>>]

\* table students as a statement of load r sees it
Visible(r) ==
    {x \in students : x.student_id \notin {y.student_id : y \in runs[r].written}}
    \cup runs[r].written

InitRace ==
    /\ students = {}
    /\ view = {} /\ aborted = FALSE /\ txnNo = 1 /\ ended = <<>>
    /\ nextId = 1 /\ foreign = 0 /\ lastCall = NoCall /\ ncalls = 0
    /\ IdleBatch
    /\ IdleCatalog
    /\ IdleTransform
    /\ pipeline = "unset"
    /\ \E t1 \in RaceTables(1), t2 \in RaceTables(2) :
          runs = <<NewRun(t1), NewRun(t2)>>

\* upsert_student, the SELECT: existing = cursor.fetchone().  In a failed
\* transaction the SELECT is refused and the except branch is taken (race_Write)
race_Select(r) ==
    /\ runs[r].pc = "select"
    /\ runs[r].i <= Len(runs[r].df)
    /\ \E existing \in IF runs[r].aborted THEN {NoId}
                        ELSE FetchOne(SelectExisting(Visible(r), runs[r].df[runs[r].i])) :
         runs' = [runs EXCEPT ![r].existing = existing, ![r].pc = "write"]
    /\ UNCHANGED <<studentVars, lastCall, ncalls, batchVars, catalogVars>>
    /\ UNCHANGED <<raw, transformer, pipeline>>

\* the row the statement of load r would write is held by the open
\* transaction of the other load
Waits(r) ==
    LET me == runs[r]
        rec == me.df[me.i]
        held == runs[Other(r)].written
    IN  /\ ~me.aborted
        /\ IF me.existing # NoId
           THEN \E y \in held : y.student_id = me.existing
           ELSE \E y \in held : SqlEq(y.email, rec.email) \/ SqlEq(y.student_code, rec.student_code)

\* upsert_student, the UPDATE or INSERT, and the counting of the outcome in
\* load_students_batch; the batch commit is issued when the label hits a boundary
race_Write(r) ==
    /\ runs[r].pc = "write"
    /\ ~Waits(r)
    /\ LET me == runs[r]
           rec == me.df[me.i]
           idx == me.i - 1
           res == upsert_student(Cursor(Visible(r), me.aborted, nextId, r), rec,
                                 me.existing, FALSE)
           written == res.cur.rows \ students
           commit == BatchBoundary(idx, DefaultBatchSize)
       IN  /\ nextId' = res.cur.nextId
           /\ students' = IF commit /\ ~res.cur.aborted THEN res.cur.rows ELSE students
           /\ runs' = [runs EXCEPT
                         ![r].written = IF commit THEN {} ELSE written,
                         ![r].aborted = IF commit THEN FALSE ELSE res.cur.aborted,
                         ![r].stats = CountOutcome(me.stats, idx, rec, res),
                         ![r].log = Append(me.log, [idx |-> idx, email |-> rec.email,
                                                    ok |-> res.ok, msg |-> res.msg,
                                                    id |-> res.id]),
                         ![r].existing = NoId,
                         ![r].i = me.i + 1,
                         ![r].pc = IF me.i = Len(me.df) THEN "leave" ELSE "select"]
    /\ UNCHANGED <<view, aborted, txnNo, ended, foreign, lastCall, ncalls>>
    /\ UNCHANGED <<batchVars, catalogVars>>
    /\ UNCHANGED <<raw, transformer, pipeline>>

\* the with-blocks are left: get_connection commits (a failed transaction is
\* rolled back by the COMMIT) and closes; load_students_batch returns stats
race_Leave(r) ==
    /\ runs[r].pc = "leave"
    /\ students' = IF runs[r].aborted THEN students ELSE Visible(r)
    /\ runs' = [runs EXCEPT ![r].written = {}, ![r].aborted = FALSE, ![r].pc = "done"]
    /\ UNCHANGED <<view, aborted, txnNo, ended, nextId, foreign, lastCall, ncalls>>
    /\ UNCHANGED <<batchVars, catalogVars>>
    /\ UNCHANGED <<raw, transformer, pipeline>>

NextRace == \E r \in RaceIds : race_Select(r) \/ race_Write(r) \/ race_Leave(r)

SpecRace == InitRace /\ [][NextRace]_vars

---------------------------------------------------------------------------
(* Properties of two concurrent loads (SpecRace) *)

BothDone == \A r \in RaceIds : runs[r].pc = "done"

\* load r lost the race: its INSERT of the shared e-mail met the row the
\* other load had committed
LostRace(r) ==
    \E k \in 1..Len(runs[r].log) :
        runs[r].log[k].email = SharedRecord.email /\ runs[r].log[k].msg = "UniqueViolation"

SharedRows == {x \in students : x.email = SharedRecord.email}

\* C30: when two loads, each with its own connection and transaction, upsert a
\* record with the same e-mail that is not yet stored, then under every
\* interleaving of their SELECTs, INSERTs and commits the store ends with
\* exactly one row for that e-mail, and the load that loses the race has the
\* conflict as its one failed record while each of its other records is
\* counted as loaded and is in the store.
C30_RaceLoserKeepsLoading ==
    BothDone =>
        /\ Cardinality(SharedRows) = 1
        /\ \A r \in RaceIds :
              LostRace(r) =>
                 /\ runs[r].stats.failed = 1
                 /\ Len(runs[r].stats.errors) = 1
                 /\ \A k \in 1..Len(runs[r].df) :
                       runs[r].df[k].email # SharedRecord.email =>
                          /\ runs[r].log[k].ok
                          /\ \E x \in students : x.email = runs[r].df[k].email

====
